---- MODULE Spec2Model ----
(***************************************************************************)
(* advent-of-code-2023.                                                    *)
(* Day 3: the schematic parser (src/src/day3/schematic_parser.rs) and the  *)
(* sums of day3::run (src/src/day3/mod.rs), specification Spec.            *)
(* Day 1: sum_first_and_last_digits with either digit algorithm            *)
(* (src/src/day1), specification SpecDay1, and concatenate_digits on any   *)
(* two u8, specification SpecConcatenate.                                  *)
(* Day 2: Game::from_str, was_possible and calculate_power (src/src/day2), *)
(* specification SpecDay2.                                                 *)
(* Day 4: run with Scratchcard::from_str (src/src/day4), specification     *)
(* SpecDay4.                                                               *)
(*                                                                         *)
(* A `char` is its Unicode code point.  A `&str` is the sequence of its    *)
(* chars; the byte offset of a char is the sum of the UTF-8 lengths of the *)
(* chars before it.  Indices are 0-based as in the source, so the char at  *)
(* index i of s is s[i + 1].  An Option is a sequence of length <= 1.      *)
(* A u64 is a sequence of U64Bytes base-256 limbs, least significant       *)
(* first.                                                                  *)
(***************************************************************************)
EXTENDS Integers, Sequences, FiniteSets, TLC

\* Day 3
VARIABLES schematic, pc, lines, line_idx, part_numbers, gears, result,
          part_numbers_sum, gear_ratio_sum

\* Day 1: the arguments of sum_first_and_last_digits, its position in the
\* enumerated non-empty lines, the last line handed to the digit algorithm
\* with what it returned, the running sum and the result.
VARIABLES d1_input, digit_algorithm, d1_pc, d1_pos, d1_last, d1_sum, d1_result

\* concatenate_digits called on its own: the arguments and the outcome.
VARIABLES most_sigificant, least_significant, cd_pc, concatenated

\* Day 2: the line handed to Game::from_str and its result, the limits
\* handed to was_possible with its answer, the minimum bag contents and the
\* power.
VARIABLES d2_input, d2_pc, d2_game, d2_limits, d2_possible, d2_minimum, d2_power

\* Day 4: the document, the parsed cards, the index of the outer loop, the
\* two sums and the error of run.
VARIABLES d4_input, d4_pc, scratchcards, scratchcard_idx, sum_of_points,
          num_scratchcards, d4_error

day3vars == <<schematic, pc, lines, line_idx, part_numbers, gears, result,
              part_numbers_sum, gear_ratio_sum>>

day1vars == <<d1_input, digit_algorithm, d1_pc, d1_pos, d1_last, d1_sum, d1_result>>

concatvars == <<most_sigificant, least_significant, cd_pc, concatenated>>

day2vars == <<d2_input, d2_pc, d2_game, d2_limits, d2_possible, d2_minimum, d2_power>>

day4vars == <<d4_input, d4_pc, scratchcards, scratchcard_idx, sum_of_points,
              num_scratchcards, d4_error>>

vars == <<day3vars, day1vars, concatvars, day2vars, day4vars>>

----------------------------------------------------------------------------
(* Bounds of the checked input space *)

\* Longest document (in chars, line feeds included) drawn exhaustively.
MaxDocLen == 6

----------------------------------------------------------------------------
(* Option *)

None == <<>>

Some(x) == <<x>>

checked_sub(a, b) == IF a >= b THEN Some(a - b) ELSE None

\* usize::MAX is out of reach of any index of a document in memory.
checked_add(a, b) == Some(a + b)

saturating_sub(a, b) == IF a >= b THEN a - b ELSE 0

Range(s, e) == [start |-> s, end |-> e]

\* Range<usize>::contains
contains(r, i) == r.start <= i /\ i < r.end

\* Range<usize>::len
range_len(r) == IF r.end >= r.start THEN r.end - r.start ELSE 0

----------------------------------------------------------------------------
(* chars and strings *)

LF == 10

CR == 13

\* '.'
Dot == 46

\* '*'
Star == 42

\* A two-byte char, the one of the UTF-8 tests.
Nko == 2039

\* char::len_utf8
len_utf8(c) == IF c < 128 THEN 1 ELSE IF c < 2048 THEN 2 ELSE IF c < 65536 THEN 3 ELSE 4

\* char::is_ascii_digit
is_ascii_digit(c) == c >= 48 /\ c <= 57

\* str::len: the length in bytes.
RECURSIVE str_len(_)
str_len(s) == IF s = <<>> THEN 0 ELSE len_utf8(Head(s)) + str_len(Tail(s))

\* The number of chars of s that lie in its first `bytes` bytes.
RECURSIVE CharsInPrefix(_, _, _, _)
CharsInPrefix(s, bytes, i, acc) ==
    IF acc >= bytes \/ i >= Len(s) THEN i
    ELSE CharsInPrefix(s, bytes, i + 1, acc + len_utf8(s[i + 1]))

\* str::is_char_boundary
is_char_boundary(s, index) ==
    index = 0 \/ \E i \in 1..Len(s) : str_len(SubSeq(s, 1, i)) = index

\* &input[..bytes_index]
SliceTo(input, bytes_index) == SubSeq(input, 1, CharsInPrefix(input, bytes_index, 0, 0))

\* &input[bytes_index..]
SliceFrom(input, bytes_index) ==
    SubSeq(input, CharsInPrefix(input, bytes_index, 0, 0) + 1, Len(input))

\* The index (1-based) of the first line feed of s, 0 when it has none.
RECURSIVE FirstLF(_, _)
FirstLF(s, i) ==
    IF i > Len(s) THEN 0 ELSE IF s[i] = LF THEN i ELSE FirstLF(s, i + 1)

\* One piece of split_inclusive('\n') without its line ending: "\n", or "\r\n".
StripLineEnding(piece) ==
    IF piece = <<>> \/ piece[Len(piece)] # LF THEN piece
    ELSE LET l == SubSeq(piece, 1, Len(piece) - 1) IN
         IF l = <<>> \/ l[Len(l)] # CR THEN l ELSE SubSeq(l, 1, Len(l) - 1)

\* Mutant: empty lines are filtered out.
RECURSIVE Lines_SkipEmpty(_)
Lines_SkipEmpty(s) ==
    IF s = <<>> THEN <<>>
    ELSE LET i == FirstLF(s, 1)
             piece == StripLineEnding(IF i = 0 THEN s ELSE SubSeq(s, 1, i))
             rest == IF i = 0 THEN <<>> ELSE Lines_SkipEmpty(SubSeq(s, i + 1, Len(s)))
         IN IF piece = <<>> THEN rest ELSE <<piece>> \o rest

\* str::lines().collect::<Vec<_>>()
RECURSIVE Lines(_)
Lines(s) ==
    IF s = <<>> THEN <<>>
    ELSE LET i == FirstLF(s, 1) IN
         IF i = 0 THEN <<StripLineEnding(s)>>
         ELSE <<StripLineEnding(SubSeq(s, 1, i))>> \o Lines(SubSeq(s, i + 1, Len(s)))

\* Vec::get
get(v, i) == IF i < Len(v) THEN Some(v[i + 1]) ELSE None

----------------------------------------------------------------------------
(* u64 *)

U64Bytes == 8

U64Zero == [i \in 1..U64Bytes |-> 0]

\* x * m + a over the limbs from i on, the carry out as a last, extra limb.
RECURSIVE MulAddLimbs(_, _, _, _)
MulAddLimbs(x, m, a, i) ==
    IF i > Len(x) THEN <<a>>
    ELSE LET t == x[i] * m + a IN <<t % 256>> \o MulAddLimbs(x, m, t \div 256, i + 1)

\* u64::checked_mul by a small factor
checked_mul_small(x, m) ==
    LET w == MulAddLimbs(x, m, 0, 1) IN
    IF w[U64Bytes + 1] = 0 THEN Some(SubSeq(w, 1, U64Bytes)) ELSE None

\* u64::checked_add of a small addend
checked_add_small(x, a) ==
    LET w == MulAddLimbs(x, 1, a, 1) IN
    IF w[U64Bytes + 1] = 0 THEN Some(SubSeq(w, 1, U64Bytes)) ELSE None

\* <u64 as FromStr>::from_str over the chars of a digit run, from char i on:
\* result = result.checked_mul(10)?.checked_add(digit)?
RECURSIVE ParseFrom(_, _, _)
ParseFrom(digits, i, acc) ==
    IF i > Len(digits) THEN Some(acc)
    ELSE LET m == checked_mul_small(acc, 10) IN
         IF m = None THEN None
         ELSE LET a == checked_add_small(m[1], digits[i] - 48) IN
              IF a = None THEN None ELSE ParseFrom(digits, i + 1, a[1])

\* str::parse::<u64>
parse_u64(digits) ==
    IF digits = <<>> \/ \E i \in 1..Len(digits) : ~is_ascii_digit(digits[i]) THEN None
    ELSE ParseFrom(digits, 1, U64Zero)

----------------------------------------------------------------------------
(* schematic_parser.rs *)

\* The end (exclusive char index) of the digit run that starts at char p.
RECURSIVE RunEnd(_, _)
RunEnd(line, p) ==
    IF p < Len(line) /\ is_ascii_digit(line[p + 1]) THEN RunEnd(line, p + 1) ELSE p

\* Mutant: the matches of [0-9], one per digit.
RECURSIVE find_iter_OneDigit(_, _)
find_iter_OneDigit(line, p) ==
    IF p >= Len(line) THEN <<>>
    ELSE IF ~is_ascii_digit(line[p + 1]) THEN find_iter_OneDigit(line, p + 1)
    ELSE <<Range(str_len(SubSeq(line, 1, p)), str_len(SubSeq(line, 1, p + 1)))>>
             \o find_iter_OneDigit(line, p + 1)

\* NUMBER_REGEX.find_iter(line): the byte ranges of the matches of [0-9]+,
\* leftmost first, each one as long as possible, not overlapping.
RECURSIVE find_iter(_, _)
find_iter(line, p) ==
    IF p >= Len(line) THEN <<>>
    ELSE IF ~is_ascii_digit(line[p + 1]) THEN find_iter(line, p + 1)
    ELSE LET e == RunEnd(line, p) IN
         <<Range(str_len(SubSeq(line, 1, p)), str_len(SubSeq(line, 1, e)))>>
             \o find_iter(line, e)

\* Match::as_str
as_str(line, m) ==
    SubSeq(line, Len(SliceTo(line, m.start)) + 1, Len(SliceTo(line, m.end)))

\* Mutant: '*' is no symbol.
is_symbol_NotStar(input) == ~is_ascii_digit(input) /\ input # Dot /\ input # Star

is_symbol(input) == ~is_ascii_digit(input) /\ input # Dot

\* Mutant: the chars of the whole input are counted, not those of the slice.
bytes_index_to_chars_index_WholeInput(input, bytes_index) == Len(input)

bytes_index_to_chars_index(input, bytes_index) == Len(SliceTo(input, bytes_index))

\* Mutant: the byte range taken for the chars range.
from_bytes_range_Identity(input, bytes_range) == bytes_range

from_bytes_range(input, bytes_range) ==
    Range(bytes_index_to_chars_index(input, bytes_range.start),
          bytes_index_to_chars_index(input, bytes_range.end))

grown_by_one(r) == Range(saturating_sub(r.start, 1), r.end + 1)

\* Mutant: no character to the left counts as a symbol.
is_symbol_left_DefaultTrue(input, number_bytes_range) ==
    LET s == SliceTo(input, number_bytes_range.start) IN
    IF s = <<>> THEN TRUE ELSE is_symbol(s[Len(s)])

is_symbol_left(input, number_bytes_range) ==
    LET s == SliceTo(input, number_bytes_range.start) IN
    IF s = <<>> THEN FALSE ELSE is_symbol(s[Len(s)])

is_symbol_right(input, number_bytes_range) ==
    LET s == SliceFrom(input, number_bytes_range.end) IN
    IF s = <<>> THEN FALSE ELSE is_symbol(s[1])

\* Mutant: the range itself, not grown by one (no diagonal neighbours).
is_symbol_in_or_next_to_range_NotGrown(input, number_chars_range) ==
    \E k \in 0..(range_len(number_chars_range) - 1) :
        /\ number_chars_range.start + k < Len(input)
        /\ is_symbol(input[number_chars_range.start + k + 1])

\* chars().skip(start).take(len).any(is_symbol)
is_symbol_in_or_next_to_range(input, number_chars_range) ==
    LET range_grown_by_one == grown_by_one(number_chars_range) IN
    \E k \in 0..(range_len(range_grown_by_one) - 1) :
        /\ range_grown_by_one.start + k < Len(input)
        /\ is_symbol(input[range_grown_by_one.start + k + 1])

is_symbol_in_line_idx(lns, idx, number_chars_range) ==
    IF idx = None THEN FALSE
    ELSE LET l == get(lns, idx[1]) IN
         IF l = None THEN FALSE
         ELSE is_symbol_in_or_next_to_range(l[1], number_chars_range)

is_symbol_above(lns, number_line_idx, number_chars_range) ==
    is_symbol_in_line_idx(lns, checked_sub(number_line_idx, 1), number_chars_range)

is_symbol_below(lns, number_line_idx, number_chars_range) ==
    is_symbol_in_line_idx(lns, checked_add(number_line_idx, 1), number_chars_range)

\* Mutant: the line below is not looked at.
has_adjacent_symbol_NoBelow(lns, idx, line, m) ==
    \/ is_symbol_left(line, m)
    \/ is_symbol_right(line, m)
    \/ is_symbol_above(lns, idx, from_bytes_range(line, m))

has_adjacent_symbol(lns, idx, line, m) ==
    \/ is_symbol_left(line, m)
    \/ is_symbol_right(line, m)
    \/ is_symbol_above(lns, idx, from_bytes_range(line, m))
    \/ is_symbol_below(lns, idx, from_bytes_range(line, m))

\* Mutant: range_chars measured to the end of the match's last byte.
PartNumber_WideChars(value, idx, line, m) ==
    [part_number |-> value, line_idx |-> idx, range_bytes |-> m,
     range_chars |-> Range(bytes_index_to_chars_index(line, m.start), m.end)]

PartNumber(value, idx, line, m) ==
    [part_number |-> value, line_idx |-> idx, range_bytes |-> m,
     range_chars |-> from_bytes_range(line, m)]

Err(line, text) == [tag |-> "Err", line |-> line, text |-> text]

Ok(pns, gs) == [tag |-> "Ok", part_numbers |-> pns, gears |-> gs]

\* The slices taken for one match: &input[..start], &input[..end] and
\* &input[end..] panic unless the index is a char boundary.
slices_ok(line, m) == is_char_boundary(line, m.start) /\ is_char_boundary(line, m.end)

\* Mutant: a number is parsed only once it is known to have a symbol around.
RECURSIVE ScanMatches_AdjacentFirst(_, _, _, _, _)
ScanMatches_AdjacentFirst(lns, idx, ms, k, acc) ==
    IF k > Len(ms) THEN [failed |-> None, pushed |-> acc, panicked |-> FALSE]
    ELSE LET line == lns[idx + 1]
             v == parse_u64(as_str(line, ms[k])) IN
         IF ~slices_ok(line, ms[k])
         THEN [failed |-> None, pushed |-> acc, panicked |-> TRUE]
         ELSE IF ~has_adjacent_symbol(lns, idx, line, ms[k])
         THEN ScanMatches_AdjacentFirst(lns, idx, ms, k + 1, acc)
         ELSE IF v = None THEN [failed |-> Some(ms[k]), pushed |-> acc, panicked |-> FALSE]
         ELSE ScanMatches_AdjacentFirst(lns, idx, ms, k + 1,
                 Append(acc, PartNumber(v[1], idx, line, ms[k])))

\* The body of the loop over the matches of one line, from match k on: the
\* part numbers pushed, and the first match that fails to parse if there is
\* one; panicked when a slice does.
RECURSIVE ScanMatches(_, _, _, _, _)
ScanMatches(lns, idx, ms, k, acc) ==
    IF k > Len(ms) THEN [failed |-> None, pushed |-> acc, panicked |-> FALSE]
    ELSE LET line == lns[idx + 1]
             v == parse_u64(as_str(line, ms[k])) IN
         IF v = None THEN [failed |-> Some(ms[k]), pushed |-> acc, panicked |-> FALSE]
         ELSE IF ~slices_ok(line, ms[k])
         THEN [failed |-> None, pushed |-> acc, panicked |-> TRUE]
         ELSE ScanMatches(lns, idx, ms, k + 1,
                 IF has_adjacent_symbol(lns, idx, line, ms[k])
                 THEN Append(acc, PartNumber(v[1], idx, line, ms[k]))
                 ELSE acc)

\* Mutant: insertion at the front.
extend_Front(v, more) == more \o v

\* Vec::push of every element of `more`
extend(v, more) == v \o more

\* line.match_indices('*'): the byte index of every '*' of the line, in order.
match_indices(line) ==
    LET RECURSIVE From(_)
        From(p) == IF p >= Len(line) THEN <<>>
                   ELSE IF line[p + 1] = Star
                        THEN <<str_len(SubSeq(line, 1, p))>> \o From(p + 1)
                        ELSE From(p + 1)
    IN From(0)

is_neighboring_char(self, idx, index_chars) ==
    LET is_gear_on_same_line == self.line_idx = idx
        is_gear_on_line_above == checked_add(idx, 1) = Some(self.line_idx)
        is_gear_on_line_below == checked_sub(idx, 1) = Some(self.line_idx)
        is_gear_to_left ==
            is_gear_on_same_line /\ checked_sub(self.range_chars.start, 1) = Some(index_chars)
        is_gear_to_right == is_gear_on_same_line /\ self.range_chars.end = index_chars
        is_gear_above ==
            is_gear_on_line_above /\ contains(grown_by_one(self.range_chars), index_chars)
        is_gear_below ==
            is_gear_on_line_below /\ contains(grown_by_one(self.range_chars), index_chars)
    IN is_gear_to_left \/ is_gear_to_right \/ is_gear_above \/ is_gear_below

\* part_numbers.iter().filter(..).cloned().collect()
RECURSIVE filter_neighbors(_, _, _, _)
filter_neighbors(pns, k, idx, chars_index) ==
    IF k > Len(pns) THEN <<>>
    ELSE (IF is_neighboring_char(pns[k], idx, chars_index) THEN <<pns[k]>> ELSE <<>>)
             \o filter_neighbors(pns, k + 1, idx, chars_index)

\* Mutant: the two neighbours swapped.
Gear_Swapped(idx, line, gear_match_index_bytes, neighbors) ==
    [line_idx |-> idx, index_bytes |-> gear_match_index_bytes,
     index_chars |-> bytes_index_to_chars_index(line, gear_match_index_bytes),
     neighbors |-> <<neighbors[2], neighbors[1]>>]

Gear(idx, line, gear_match_index_bytes, neighbors) ==
    [line_idx |-> idx, index_bytes |-> gear_match_index_bytes,
     index_chars |-> bytes_index_to_chars_index(line, gear_match_index_bytes),
     neighbors |-> <<neighbors[1], neighbors[2]>>]

\* Mutant: a gear for two or more neighbours.
RECURSIVE ScanGears_AtLeastTwo(_, _, _, _, _)
ScanGears_AtLeastTwo(pns, idx, line, stars, k) ==
    IF k > Len(stars) THEN <<>>
    ELSE LET chars_index == bytes_index_to_chars_index(line, stars[k])
             neighbors == filter_neighbors(pns, 1, idx, chars_index) IN
         (IF Len(neighbors) >= 2 THEN <<Gear(idx, line, stars[k], neighbors)>> ELSE <<>>)
             \o ScanGears_AtLeastTwo(pns, idx, line, stars, k + 1)

\* The body of the loop over the '*' of one line, from occurrence k on.
RECURSIVE ScanGears(_, _, _, _, _)
ScanGears(pns, idx, line, stars, k) ==
    IF k > Len(stars) THEN <<>>
    ELSE LET chars_index == bytes_index_to_chars_index(line, stars[k])
             neighbors == filter_neighbors(pns, 1, idx, chars_index) IN
         (IF Len(neighbors) = 2 THEN <<Gear(idx, line, stars[k], neighbors)>> ELSE <<>>)
             \o ScanGears(pns, idx, line, stars, k + 1)

ExampleData ==
    <<52, 54, 55, 46, 46, 49, 49, 52, 46, 46>>
    \o <<LF>> \o <<46, 46, 46, 42, 46, 46, 46, 46, 46, 46>>
    \o <<LF>> \o <<46, 46, 51, 53, 46, 46, 54, 51, 51, 46>>
    \o <<LF>> \o <<46, 46, 46, 46, 46, 46, 35, 46, 46, 46>>
    \o <<LF>> \o <<54, 49, 55, 42, 46, 46, 46, 46, 46, 46>>
    \o <<LF>> \o <<46, 46, 46, 46, 46, 43, 46, 53, 56, 46>>
    \o <<LF>> \o <<46, 46, 53, 57, 50, 46, 46, 46, 46, 46>>
    \o <<LF>> \o <<46, 46, 46, 46, 46, 46, 55, 53, 53, 46>>
    \o <<LF>> \o <<46, 46, 46, 36, 46, 42, 46, 46, 46, 46>>
    \o <<LF>> \o <<46, 54, 54, 52, 46, 53, 57, 56, 46, 46>>

----------------------------------------------------------------------------
(* u64 arithmetic of the sums *)

\* x + y + c over the limbs from i on (x and y of one length), the carry out
\* as a last, extra limb.
RECURSIVE AddLimbs(_, _, _, _)
AddLimbs(x, y, c, i) ==
    IF i > Len(x) THEN <<c>>
    ELSE LET t == x[i] + y[i] + c IN <<t % 256>> \o AddLimbs(x, y, t \div 256, i + 1)

Zeros(n) == [i \in 1..n |-> 0]

\* The full 2 * U64Bytes limbs of x * y, from limb j of y on.
RECURSIVE MulLimbs(_, _, _, _)
MulLimbs(x, y, j, acc) ==
    IF j > Len(y) THEN acc
    ELSE LET partial == Zeros(j - 1) \o MulAddLimbs(x, y[j], 0, 1)
                            \o Zeros(U64Bytes - j)
         IN MulLimbs(x, y, j + 1, SubSeq(AddLimbs(acc, partial, 0, 1), 1, 2 * U64Bytes))

\* `a + b` on u64: with overflow checks (a debug build) an overflow panics
\* (None), without them (a release build) the sum wraps.
add_u64(a, b, overflow_checks) ==
    LET w == AddLimbs(a, b, 0, 1) IN
    IF w[U64Bytes + 1] # 0 /\ overflow_checks THEN None ELSE Some(SubSeq(w, 1, U64Bytes))

\* `a * b` on u64, likewise.
mul_u64(a, b, overflow_checks) ==
    LET w == MulLimbs(a, b, 1, Zeros(2 * U64Bytes)) IN
    IF SubSeq(w, U64Bytes + 1, 2 * U64Bytes) # Zeros(U64Bytes) /\ overflow_checks THEN None
    ELSE Some(SubSeq(w, 1, U64Bytes))

gear_ratio(self, overflow_checks) ==
    mul_u64(self.neighbors[1].part_number, self.neighbors[2].part_number, overflow_checks)

\* Iterator::sum::<u64> over Option values, from element k on: None once an
\* element or an addition panicked.
RECURSIVE sum_u64(_, _, _, _)
sum_u64(xs, k, acc, overflow_checks) ==
    IF k > Len(xs) THEN Some(acc)
    ELSE IF xs[k] = None THEN None
    ELSE LET a == add_u64(acc, xs[k][1], overflow_checks) IN
         IF a = None THEN None ELSE sum_u64(xs, k + 1, a[1], overflow_checks)

----------------------------------------------------------------------------
(* The documents parsed *)

Alphabet == {49, Dot, Star, Nko, LF}

SmallDocs == UNION {[1..n -> Alphabet] : n \in 0..MaxDocLen}

\* u64::MAX
U64MaxDigits == <<49, 56, 52, 52, 54, 55, 52, 52, 48, 55, 51, 55, 48, 57, 53, 53, 49, 54, 49, 53>>

\* u64::MAX + 1
TooBigDigits == <<49, 56, 52, 52, 54, 55, 52, 52, 48, 55, 51, 55, 48, 57, 53, 53, 49, 54, 49, 54>>

\* 2^32
TwoTo32Digits == <<52, 50, 57, 52, 57, 54, 55, 50, 57, 54>>

LongRuns == {U64MaxDigits, TooBigDigits, <<48>> \o U64MaxDigits, <<48, 48>> \o TooBigDigits,
             TwoTo32Digits, <<57, 57, 57, 57, 57, 57, 57, 57, 57, 57, 57, 57, 57, 57, 57, 57, 57, 57, 57, 57>>}

\* Documents with one digit run at the limit of u64, after any of a few line
\* beginnings and before any of a few endings.
OneLongRunDocs ==
    {pre \o r \o suf :
        pre \in {<<>>, <<Star>>, <<49, Star, LF>>, <<49, LF>>, <<49, Dot>>, <<LF>>,
                 <<Star, 49, LF, LF>>},
        r \in LongRuns,
        suf \in {<<>>, <<Star>>, <<LF, Star>>, <<Dot, 49, Star>>, <<LF, LF, Star>>}}

\* Documents with two such runs around one '*', on one line or on two.
TwoLongRunDocs ==
    {r1 \o sep \o r2 : r1 \in LongRuns, r2 \in LongRuns,
                       sep \in {<<Star>>, <<LF, Star>>, <<Star, LF>>}}

----------------------------------------------------------------------------
(* The state machine: run() reads the document and parses it with from_str, *)
(* one action per loop iteration, then sums.                                *)

\* Day 3 is not running.
Day3Idle ==
    /\ schematic = <<>>
    /\ pc = "idle"
    /\ lines = <<>>
    /\ line_idx = 0
    /\ part_numbers = <<>>
    /\ gears = <<>>
    /\ result = None
    /\ part_numbers_sum = None
    /\ gear_ratio_sum = None

\* Day 1 is not running.
Day1Idle ==
    /\ d1_input = <<>>
    /\ digit_algorithm = "none"
    /\ d1_pc = "idle"
    /\ d1_pos = 0
    /\ d1_last = None
    /\ d1_sum = 0
    /\ d1_result = None

\* concatenate_digits is not called on its own.
ConcatenateIdle ==
    /\ most_sigificant = 0
    /\ least_significant = 0
    /\ cd_pc = "idle"
    /\ concatenated = None

\* No game of day 2 is being parsed.
Day2Idle ==
    /\ d2_input = <<>>
    /\ d2_pc = "idle"
    /\ d2_game = None
    /\ d2_limits = None
    /\ d2_possible = None
    /\ d2_minimum = None
    /\ d2_power = None

\* No run of day 4.
Day4Idle ==
    /\ d4_input = <<>>
    /\ d4_pc = "idle"
    /\ scratchcards = <<>>
    /\ scratchcard_idx = 0
    /\ sum_of_points = None
    /\ num_scratchcards = None
    /\ d4_error = None

Init ==
    /\ Day1Idle
    /\ ConcatenateIdle
    /\ Day2Idle
    /\ Day4Idle
    /\ schematic \in SmallDocs \cup OneLongRunDocs \cup TwoLongRunDocs \cup {ExampleData}
    /\ pc = "from_str"
    /\ lines = <<>>
    /\ line_idx = 0
    /\ part_numbers = <<>>
    /\ gears = <<>>
    /\ result = None
    /\ part_numbers_sum = None
    /\ gear_ratio_sum = None

\* from_str, up to the first loop: lines and the empty part_numbers.
SplitLines ==
    /\ pc = "from_str"
    /\ lines' = Lines(schematic)
    /\ part_numbers' = <<>>
    /\ line_idx' = 0
    /\ pc' = IF Lines(schematic) = <<>> THEN "gears" ELSE "numbers"
    /\ UNCHANGED <<schematic, gears, result, part_numbers_sum, gear_ratio_sum>>
    /\ UNCHANGED <<day1vars, concatvars, day2vars, day4vars>>

\* One iteration of the first loop: every number of line line_idx.  A number
\* that does not parse returns the error; the locals are dropped.  A slice
\* off a char boundary panics.
ScanLine ==
    /\ pc = "numbers"
    /\ line_idx < Len(lines)
    /\ LET line == lines[line_idx + 1]
           scan == ScanMatches(lines, line_idx, find_iter(line, 0), 1, <<>>)
       IN IF scan.panicked
          THEN /\ pc' = "panicked"
               /\ UNCHANGED <<lines, part_numbers, line_idx, result>>
          ELSE IF scan.failed # None
          THEN /\ result' = Some(Err(line, as_str(line, scan.failed[1])))
               /\ pc' = "returned"
               /\ lines' = <<>>
               /\ part_numbers' = <<>>
               /\ line_idx' = 0
          ELSE /\ part_numbers' = extend(part_numbers, scan.pushed)
               /\ pc' = IF line_idx + 1 = Len(lines) THEN "gears" ELSE "numbers"
               /\ line_idx' = IF line_idx + 1 = Len(lines) THEN 0 ELSE line_idx + 1
               /\ UNCHANGED <<lines, result>>
    /\ UNCHANGED <<schematic, gears, part_numbers_sum, gear_ratio_sum>>
    /\ UNCHANGED <<day1vars, concatvars, day2vars, day4vars>>

\* One iteration of the second loop: every '*' of line line_idx.
GearLine ==
    /\ pc = "gears"
    /\ line_idx < Len(lines)
    /\ LET line == lines[line_idx + 1]
           stars == match_indices(line)
       IN IF \E k \in 1..Len(stars) : ~is_char_boundary(line, stars[k])
          THEN pc' = "panicked" /\ UNCHANGED <<gears, line_idx>>
          ELSE /\ gears' = extend(gears, ScanGears(part_numbers, line_idx, line, stars, 1))
               /\ line_idx' = line_idx + 1
               /\ pc' = pc
    /\ UNCHANGED <<schematic, lines, part_numbers, result, part_numbers_sum,
                   gear_ratio_sum>>
    /\ UNCHANGED <<day1vars, concatvars, day2vars, day4vars>>

\* Ok(Schematic { part_numbers, gears }): the locals move into the result.
Return ==
    /\ pc = "gears"
    /\ line_idx = Len(lines)
    /\ result' = Some(Ok(part_numbers, gears))
    /\ pc' = "returned"
    /\ lines' = <<>>
    /\ part_numbers' = <<>>
    /\ gears' = <<>>
    /\ line_idx' = 0
    /\ UNCHANGED <<schematic, part_numbers_sum, gear_ratio_sum>>
    /\ UNCHANGED <<day1vars, concatvars, day2vars, day4vars>>

PartValues(pns) == [k \in 1..Len(pns) |-> Some(pns[k].part_number)]

GearRatios(gs, overflow_checks) == [k \in 1..Len(gs) |-> gear_ratio(gs[k], overflow_checks)]

\* run(), after the parse: `?` on an error, else the two sums.  An overflow
\* panics in a build with overflow checks and wraps in one without.
RunSums ==
    /\ pc = "returned"
    /\ IF result[1].tag = "Err"
       THEN /\ pc' = "run_err"
            /\ UNCHANGED <<part_numbers_sum, gear_ratio_sum>>
       ELSE \E overflow_checks \in BOOLEAN :
              LET s1 == sum_u64(PartValues(result[1].part_numbers), 1, U64Zero,
                                overflow_checks)
                  s2 == sum_u64(GearRatios(result[1].gears, overflow_checks), 1, U64Zero,
                                overflow_checks)
              IN /\ part_numbers_sum' = s1
                 /\ gear_ratio_sum' = IF s1 = None THEN None ELSE s2
                 /\ pc' = IF s1 = None \/ s2 = None THEN "panicked" ELSE "run_ok"
    /\ UNCHANGED <<schematic, lines, line_idx, part_numbers, gears, result>>
    /\ UNCHANGED <<day1vars, concatvars, day2vars, day4vars>>

Next == SplitLines \/ ScanLine \/ GearLine \/ Return \/ RunSums

Spec == Init /\ [][Next]_vars

----------------------------------------------------------------------------
(* Vocabulary of the properties, stated on the document itself *)

DocLines == Lines(schematic)

Parsed == result # None /\ result[1].tag = "Ok"

Failed == result # None /\ result[1].tag = "Err"

IsDigitChar(c) == c \in 48..57

IsSymbolChar(c) == c \notin (48..57) \cup {46}

\* The maximal digit runs of a line, as <<start, end>> in chars, end exclusive.
DigitRuns(line) ==
    {r \in (0..Len(line)) \X (0..Len(line)) :
        /\ r[1] < r[2]
        /\ \A i \in (r[1] + 1)..r[2] : IsDigitChar(line[i])
        /\ r[1] = 0 \/ ~IsDigitChar(line[r[1]])
        /\ r[2] = Len(line) \/ ~IsDigitChar(line[r[2] + 1])}

\* Line l, column c is a position of the grid L.
InGrid(L, l, c) == l >= 0 /\ l < Len(L) /\ c >= 0 /\ c < Len(L[l + 1])

\* The 8-neighbourhood of the run <<s, e>> of line l.
Around(l, s, e) ==
    {<<l, s - 1>>, <<l, e>>} \cup {<<l - 1, c>> : c \in (s - 1)..e}
                             \cup {<<l + 1, c>> : c \in (s - 1)..e}

SymbolAround(L, l, s, e) ==
    \E q \in Around(l, s, e) : InGrid(L, q[1], q[2]) /\ IsSymbolChar(L[q[1] + 1][q[2] + 1])

\* Run <<s, e>> of line l is an entry of part_numbers.
IsPart(pns, l, s, e) ==
    \E k \in 1..Len(pns) : pns[k].line_idx = l /\ pns[k].range_chars = Range(s, e)

AllRuns(L) ==
    UNION {{<<l, r[1], r[2]>> : r \in DigitRuns(L[l + 1])} : l \in 0..(Len(L) - 1)}

\* A part number neighbours line l, column c.
Neighbours(pn, l, c) ==
    \/ pn.line_idx = l /\ (c = pn.range_chars.start - 1 \/ c = pn.range_chars.end)
    \/ /\ pn.line_idx - l \in {-1, 1}
       /\ c >= pn.range_chars.start - 1
       /\ c <= pn.range_chars.end

NeighbourIdx(pns, l, c) == {k \in 1..Len(pns) : Neighbours(pns[k], l, c)}

Stars(L) == {q \in UNION {{<<l, c>> : c \in 0..(Len(L[l + 1]) - 1)} : l \in 0..(Len(L) - 1)} :
                L[q[1] + 1][q[2] + 1] = 42}

IsGear(gs, l, c) == \E k \in 1..Len(gs) : gs[k].line_idx = l /\ gs[k].index_chars = c

----------------------------------------------------------------------------
(* C1 *)

\* C1: in every parsed document a maximal digit run is in part_numbers if and
\* only if a symbol lies in its 8-neighbourhood (left, right, or on the line
\* above or below in the columns start - 1 .. end).
C1_PartIffSymbolAround ==
    Parsed =>
        \A x \in AllRuns(DocLines) :
            IsPart(result[1].part_numbers, x[1], x[2], x[3])
                <=> SymbolAround(DocLines, x[1], x[2], x[3])

\* A parsed document with a run kept only for a diagonal symbol and a run
\* dropped for want of any symbol.
C1_Witness ==
    /\ Parsed
    /\ \E x \in AllRuns(DocLines) :
          /\ IsPart(result[1].part_numbers, x[1], x[2], x[3])
          /\ \E dl \in {-1, 1}, c \in {x[2] - 1, x[3]} :
                /\ InGrid(DocLines, x[1] + dl, c)
                /\ \A q \in Around(x[1], x[2], x[3]) \ {<<x[1] + dl, c>>} :
                      ~(InGrid(DocLines, q[1], q[2])
                        /\ IsSymbolChar(DocLines[q[1] + 1][q[2] + 1]))
    /\ \E x \in AllRuns(DocLines) : ~IsPart(result[1].part_numbers, x[1], x[2], x[3])

----------------------------------------------------------------------------
(* C2 *)

\* C2: in every parsed document a '*' carries a Gear if and only if exactly
\* two entries of part_numbers neighbour it, and every Gear sits on a '*'.
C2_GearIffTwoNeighbours ==
    Parsed =>
        /\ \A q \in Stars(DocLines) :
              IsGear(result[1].gears, q[1], q[2])
                  <=> Cardinality(NeighbourIdx(result[1].part_numbers, q[1], q[2])) = 2
        /\ \A k \in 1..Len(result[1].gears) :
              <<result[1].gears[k].line_idx, result[1].gears[k].index_chars>>
                  \in Stars(DocLines)

\* A parsed document with a '*' that three or more part numbers neighbour.
C2_Witness ==
    /\ Parsed
    /\ \E q \in Stars(DocLines) :
          /\ Cardinality(NeighbourIdx(result[1].part_numbers, q[1], q[2])) >= 3
          /\ ~IsGear(result[1].gears, q[1], q[2])

----------------------------------------------------------------------------
(* C3 *)

\* x divided by ten, limb i downwards, with the remainder.
RECURSIVE DivTen(_, _, _)
DivTen(x, i, rem) ==
    IF i = 0 THEN [q |-> <<>>, r |-> rem]
    ELSE LET t == rem * 256 + x[i]
             rest == DivTen(x, i - 1, t % 10)
         IN [q |-> Append(rest.q, t \div 10), r |-> rest.r]

RECURSIVE DecimalDigits(_)
DecimalDigits(x) ==
    IF \A i \in 1..Len(x) : x[i] = 0 THEN <<>>
    ELSE LET d == DivTen(x, Len(x), 0) IN Append(DecimalDigits(d.q), 48 + d.r)

\* The decimal numeral of a u64.
DecimalOf(x) == IF DecimalDigits(x) = <<>> THEN <<48>> ELSE DecimalDigits(x)

\* A numeral without its leading zeros.
RECURSIVE StripZeros(_)
StripZeros(digits) ==
    IF Len(digits) > 1 /\ digits[1] = 48 THEN StripZeros(Tail(digits)) ELSE digits

RunDigits(L, l, s, e) == SubSeq(L[l + 1], s + 1, e)

\* C3: every entry of part_numbers is one maximal digit run of its line, its
\* spans are as long as the run has digits, its value is the decimal value of
\* the run, and no run is entered twice.
C3_OneEntryPerMaximalRun ==
    Parsed =>
        LET pns == result[1].part_numbers IN
        \A k \in 1..Len(pns) :
            LET s == pns[k].range_chars.start
                e == pns[k].range_chars.end
            IN /\ pns[k].line_idx < Len(DocLines)
               /\ <<s, e>> \in DigitRuns(DocLines[pns[k].line_idx + 1])
               /\ pns[k].range_bytes.end - pns[k].range_bytes.start = e - s
               /\ DecimalOf(pns[k].part_number)
                      = StripZeros(RunDigits(DocLines, pns[k].line_idx, s, e))
               /\ \A j \in 1..Len(pns) :
                      j # k => ~(pns[j].line_idx = pns[k].line_idx
                                 /\ pns[j].range_chars = pns[k].range_chars)

\* A part number of two or more digits with a symbol on its left and one on
\* its right.
C3_Witness ==
    /\ Parsed
    /\ \E k \in 1..Len(result[1].part_numbers) :
          LET pn == result[1].part_numbers[k]
              line == DocLines[pn.line_idx + 1]
          IN /\ pn.range_chars.end - pn.range_chars.start >= 2
             /\ pn.range_chars.start > 0
             /\ pn.range_chars.end < Len(line)
             /\ IsSymbolChar(line[pn.range_chars.start])
             /\ IsSymbolChar(line[pn.range_chars.end + 1])

----------------------------------------------------------------------------
(* C4 *)

\* C4: is_symbol holds of exactly the chars that are neither '0'..'9' nor
\* '.', and so a digit run with a '*' around it is a part number.
C4_SymbolIsNeitherDigitNorDot ==
    /\ \A c \in (0..127) \cup {Nko} : is_symbol(c) <=> c \notin (48..57) \cup {46}
    /\ Parsed =>
          \A x \in AllRuns(DocLines) :
              (\E q \in Around(x[1], x[2], x[3]) :
                    InGrid(DocLines, q[1], q[2]) /\ DocLines[q[1] + 1][q[2] + 1] = 42)
                  => IsPart(result[1].part_numbers, x[1], x[2], x[3])

\* A part number whose only neighbouring symbols are '*'.
C4_Witness ==
    /\ Parsed
    /\ \E x \in AllRuns(DocLines) :
          /\ IsPart(result[1].part_numbers, x[1], x[2], x[3])
          /\ \A q \in Around(x[1], x[2], x[3]) :
                (InGrid(DocLines, q[1], q[2]) /\ IsSymbolChar(DocLines[q[1] + 1][q[2] + 1]))
                    => DocLines[q[1] + 1][q[2] + 1] = 42

----------------------------------------------------------------------------
(* C5 *)

\* The u64 of a natural number below 2^31.
U64Of(n) ==
    <<n % 256, (n \div 256) % 256, (n \div 65536) % 256, n \div 16777216, 0, 0, 0, 0>>

ValuesOf(pns) == [k \in 1..Len(pns) |-> pns[k].part_number]

\* C5: the example document parses to the part numbers 467, 35, 633, 617,
\* 592, 755, 664, 598 in that order, and to the two gears (467, 35) at line
\* 1 column 3 and (755, 598) at line 8 column 5; the sums are 4361 and
\* 467835.
C5_ExampleData ==
    schematic = ExampleData =>
        /\ result # None =>
              /\ Parsed
              /\ ValuesOf(result[1].part_numbers)
                    = <<U64Of(467), U64Of(35), U64Of(633), U64Of(617), U64Of(592),
                        U64Of(755), U64Of(664), U64Of(598)>>
              /\ Len(result[1].gears) = 2
              /\ result[1].gears[1].line_idx = 1
              /\ result[1].gears[1].index_chars = 3
              /\ ValuesOf(result[1].gears[1].neighbors) = <<U64Of(467), U64Of(35)>>
              /\ result[1].gears[2].line_idx = 8
              /\ result[1].gears[2].index_chars = 5
              /\ ValuesOf(result[1].gears[2].neighbors) = <<U64Of(755), U64Of(598)>>
        /\ pc \in {"run_ok", "run_err", "panicked"} =>
              /\ pc = "run_ok"
              /\ part_numbers_sum = Some(U64Of(4361))
              /\ gear_ratio_sum = Some(U64Of(467835))

\* The run over the example document has ended.
C5_Witness == schematic = ExampleData /\ pc = "run_ok"

----------------------------------------------------------------------------
(* C6 *)

Before(l1, c1, l2, c2) == l1 < l2 \/ (l1 = l2 /\ c1 < c2)

\* C6: part_numbers is strictly sorted by (line_idx, range_chars.start) and
\* gears by (line_idx, index_chars).
C6_DiscoveryOrder ==
    Parsed =>
        /\ \A k \in 1..(Len(result[1].part_numbers) - 1) :
              Before(result[1].part_numbers[k].line_idx,
                     result[1].part_numbers[k].range_chars.start,
                     result[1].part_numbers[k + 1].line_idx,
                     result[1].part_numbers[k + 1].range_chars.start)
        /\ \A k \in 1..(Len(result[1].gears) - 1) :
              Before(result[1].gears[k].line_idx, result[1].gears[k].index_chars,
                     result[1].gears[k + 1].line_idx, result[1].gears[k + 1].index_chars)

\* Part numbers on one line and on two, and gears on two lines.
C6_Witness ==
    /\ Parsed
    /\ \E k \in 1..(Len(result[1].part_numbers) - 1) :
          result[1].part_numbers[k].line_idx = result[1].part_numbers[k + 1].line_idx
    /\ \E k \in 1..(Len(result[1].part_numbers) - 1) :
          result[1].part_numbers[k].line_idx < result[1].part_numbers[k + 1].line_idx
    /\ \E k \in 1..(Len(result[1].gears) - 1) :
          result[1].gears[k].line_idx < result[1].gears[k + 1].line_idx

----------------------------------------------------------------------------
(* C7 *)

\* C7: the neighbours of every Gear are two entries of part_numbers, the
\* first one earlier in part_numbers than the second, and both neighbour the
\* gear's position.
C7_GearNeighbours ==
    Parsed =>
        \A g \in 1..Len(result[1].gears) :
            LET gear == result[1].gears[g]
                pns == result[1].part_numbers
            IN /\ Len(gear.neighbors) = 2
               /\ \E i \in 1..Len(pns), j \in 1..Len(pns) :
                     /\ i < j
                     /\ gear.neighbors[1] = pns[i]
                     /\ gear.neighbors[2] = pns[j]
               /\ Neighbours(gear.neighbors[1], gear.line_idx, gear.index_chars)
               /\ Neighbours(gear.neighbors[2], gear.line_idx, gear.index_chars)

\* A gear between a part number of the line above and one of the line below.
C7_Witness ==
    /\ Parsed
    /\ \E g \in 1..Len(result[1].gears) :
          /\ result[1].gears[g].neighbors[1].line_idx = result[1].gears[g].line_idx - 1
          /\ result[1].gears[g].neighbors[2].line_idx = result[1].gears[g].line_idx + 1

----------------------------------------------------------------------------
(* C8 *)

\* A numeral fits a u64: at most u64::MAX without its leading zeros.
FitsU64(digits) ==
    LET d == StripZeros(digits) IN
    \/ Len(d) < Len(U64MaxDigits)
    \/ /\ Len(d) = Len(U64MaxDigits)
       /\ ~\E i \in 1..Len(d) : d[i] > U64MaxDigits[i]
                                /\ \A j \in 1..(i - 1) : d[j] = U64MaxDigits[j]

Offending(L) == {x \in AllRuns(L) : ~FitsU64(RunDigits(L, x[1], x[2], x[3]))}

\* C8: from_str returns an error if and only if some maximal digit run does
\* not fit a u64; the error is the whole result, it carries the line and the
\* digits of the first such run, and run() computes no sum.
C8_ErrorIffRunTooBig ==
    result # None =>
        /\ Failed <=> Offending(DocLines) # {}
        /\ Failed =>
              /\ DOMAIN result[1] = {"tag", "line", "text"}
              /\ part_numbers = <<>> /\ gears = <<>>
              /\ part_numbers_sum = None /\ gear_ratio_sum = None
              /\ pc \in {"returned", "run_err"}
              /\ \E x \in Offending(DocLines) :
                    /\ \A y \in Offending(DocLines) : ~Before(y[1], y[2], x[1], x[2])
                    /\ result[1].line = DocLines[x[1] + 1]
                    /\ result[1].text = RunDigits(DocLines, x[1], x[2], x[3])

\* An error for a run with no symbol around it, after a line with a run that
\* has one.
C8_Witness ==
    /\ Failed
    /\ \E x \in Offending(DocLines) :
          /\ ~SymbolAround(DocLines, x[1], x[2], x[3])
          /\ \E y \in AllRuns(DocLines) :
                y[1] < x[1] /\ SymbolAround(DocLines, y[1], y[2], y[3])

----------------------------------------------------------------------------
(* C9 *)

\* A symbol in the columns s - 1 .. e of line l of the grid L.
SymbolInWindow(L, l, s, e) ==
    \E c \in (s - 1)..e : InGrid(L, l, c) /\ IsSymbolChar(L[l + 1][c + 1])

\* C9: from_str never panics, and the adjacency checks of every number of
\* the line being scanned count only positions of the grid: none above line
\* 0, below the last line, before column 0 or after the end of a line.
C9_BoundaryIsNoSymbol ==
    /\ pc = "panicked" => result # None
    /\ (pc = "numbers" /\ line_idx < Len(lines)) =>
          LET line == lines[line_idx + 1]
              ms == find_iter(line, 0)
          IN \A k \in 1..Len(ms) :
                LET r == from_bytes_range(line, ms[k]) IN
                /\ is_symbol_above(lines, line_idx, r)
                      = SymbolInWindow(lines, line_idx - 1, r.start, r.end)
                /\ is_symbol_below(lines, line_idx, r)
                      = SymbolInWindow(lines, line_idx + 1, r.start, r.end)
                /\ is_symbol_left(line, ms[k])
                      = (r.start > 0 /\ IsSymbolChar(line[r.start]))
                /\ is_symbol_right(line, ms[k])
                      = (r.end < Len(line) /\ IsSymbolChar(line[r.end + 1]))
                /\ line_idx = 0 => ~is_symbol_above(lines, line_idx, r)
                /\ line_idx = Len(lines) - 1 => ~is_symbol_below(lines, line_idx, r)

\* A number in column 0 of the only line other than an empty one below it,
\* running to the end of its line.
C9_Witness ==
    /\ pc = "numbers"
    /\ line_idx = 0
    /\ Len(lines) = 2
    /\ lines[2] = <<>>
    /\ lines[1] # <<>>
    /\ \A i \in 1..Len(lines[1]) : IsDigitChar(lines[1][i])

----------------------------------------------------------------------------
(* C10 *)

\* The 0-based line of the char at offset p (from 1) of the document: the
\* number of line feeds before it.
LineOf(doc, p) == Cardinality({q \in 1..(p - 1) : doc[q] = 10})

\* Its 0-based column: the number of chars since the last line feed before it.
ColOf(doc, p) ==
    LET lfs == {q \in 1..(p - 1) : doc[q] = 10} IN
    IF lfs = {} THEN p - 1 ELSE p - 1 - (CHOOSE q \in lfs : \A o \in lfs : o <= q)

\* The char at line l, column c of the document, if there is one.
DocChar(doc, l, c) ==
    {doc[p] : p \in {q \in 1..Len(doc) : doc[q] # 10 /\ LineOf(doc, q) = l /\ ColOf(doc, q) = c}}

\* Line l of the document exists and is empty: it ends with a line feed and
\* holds no char.
EmptyLine(doc, l) ==
    /\ \E p \in 1..Len(doc) : doc[p] = 10 /\ LineOf(doc, p) = l
    /\ \A p \in 1..Len(doc) : doc[p] # 10 => LineOf(doc, p) # l

\* The maximal digit runs of the document as <<line, start, end>>.
DocRuns(doc) ==
    {<<LineOf(doc, x[1]), ColOf(doc, x[1]), ColOf(doc, x[1]) + x[2] - x[1] + 1>> :
        x \in {y \in (1..Len(doc)) \X (1..Len(doc)) :
                  /\ y[1] <= y[2]
                  /\ \A p \in y[1]..y[2] : IsDigitChar(doc[p])
                  /\ y[1] = 1 \/ ~IsDigitChar(doc[y[1] - 1])
                  /\ y[2] = Len(doc) \/ ~IsDigitChar(doc[y[2] + 1])}}

DocSymbolAround(doc, l, s, e) ==
    \E q \in Around(l, s, e) : \E ch \in DocChar(doc, q[1], q[2]) : IsSymbolChar(ch)

----------------------------------------------------------------------------
(* C11 *)

\* from_str and the sums of run() as one function of the lines, the
\* additions and multiplications wrapping: the first loop from line idx on,
\* None when a number does not parse.
RECURSIVE PartsOfLines(_, _, _)
PartsOfLines(lns, idx, acc) ==
    IF idx >= Len(lns) THEN Some(acc)
    ELSE LET scan == ScanMatches(lns, idx, find_iter(lns[idx + 1], 0), 1, <<>>) IN
         IF scan.failed # None \/ scan.panicked THEN None
         ELSE PartsOfLines(lns, idx + 1, extend(acc, scan.pushed))

\* The second loop from line idx on.
RECURSIVE GearsOfLines(_, _, _, _)
GearsOfLines(lns, pns, idx, acc) ==
    IF idx >= Len(lns) THEN acc
    ELSE GearsOfLines(lns, pns, idx + 1,
            extend(acc, ScanGears(pns, idx, lns[idx + 1], match_indices(lns[idx + 1]), 1)))

\* The two sums run() reports for a document of these lines.
SumsOfLines(lns) ==
    LET pns == PartsOfLines(lns, 0, <<>>) IN
    IF pns = None THEN None
    ELSE Some(<<sum_u64(PartValues(pns[1]), 1, U64Zero, FALSE),
                sum_u64(GearRatios(GearsOfLines(lns, pns[1], 0, <<>>), FALSE), 1, U64Zero,
                        FALSE)>>)

\* The lines without the empty ones.
RECURSIVE WithoutEmpty(_)
WithoutEmpty(lns) ==
    IF lns = <<>> THEN <<>>
    ELSE (IF Head(lns) = <<>> THEN <<>> ELSE <<Head(lns)>>) \o WithoutEmpty(Tail(lns))

\* C11: the sums run() computes for a document are those of the document
\* without its empty lines.
C11_EmptyLinesIgnored ==
    pc = "run_ok" =>
        SumsOfLines(WithoutEmpty(DocLines)) = Some(<<part_numbers_sum, gear_ratio_sum>>)


----------------------------------------------------------------------------
(* C12 *)

\* The bytes of the UTF-8 encoding of a char.
Utf8Width(c) == CASE c <= 127 -> 1 [] c >= 128 /\ c <= 2047 -> 2
                  [] c >= 2048 /\ c <= 65535 -> 3 [] OTHER -> 4

\* The byte offset of the char at index i (from 0) of a line.
RECURSIVE ByteOffset(_, _)
ByteOffset(line, i) == IF i = 0 THEN 0 ELSE ByteOffset(line, i - 1) + Utf8Width(line[i])

HasMultiByte(line) == \E i \in 1..Len(line) : line[i] > 127

\* Line l of L, or one next to it, holds a multi-byte char.
MultiByteNear(L, l) ==
    \E d \in {-1, 0, 1} : l + d >= 0 /\ l + d < Len(L) /\ HasMultiByte(L[l + d + 1])

\* C12: adjacency is counted in chars: the range_chars of every part number
\* starts at the number of chars before it and ends at the number of chars
\* before its end, whatever their bytes, and on and next to lines with
\* multi-byte chars a run is a part number if and only if a symbol lies in
\* its 8-neighbourhood of char columns.
C12_AdjacencyInChars ==
    Parsed =>
        /\ \A k \in 1..Len(result[1].part_numbers) :
              LET pn == result[1].part_numbers[k]
                  line == DocLines[pn.line_idx + 1]
              IN /\ pn.range_chars.start <= Len(line) /\ pn.range_chars.end <= Len(line)
                 /\ ByteOffset(line, pn.range_chars.start) = pn.range_bytes.start
                 /\ ByteOffset(line, pn.range_chars.end) = pn.range_bytes.end
        /\ \A x \in AllRuns(DocLines) :
              MultiByteNear(DocLines, x[1]) =>
                  (IsPart(result[1].part_numbers, x[1], x[2], x[3])
                      <=> SymbolAround(DocLines, x[1], x[2], x[3]))

\* A part number behind a multi-byte char of its line, kept for a symbol of
\* the next line whose column is in its chars window and not in its bytes
\* window.
C12_Witness ==
    /\ Parsed
    /\ \E k \in 1..Len(result[1].part_numbers) :
          LET pn == result[1].part_numbers[k] IN
          /\ pn.range_bytes.start > pn.range_chars.start
          /\ pn.line_idx + 1 < Len(DocLines)
          /\ \A q \in Around(pn.line_idx, pn.range_chars.start, pn.range_chars.end) :
                (InGrid(DocLines, q[1], q[2]) /\ IsSymbolChar(DocLines[q[1] + 1][q[2] + 1]))
                    => /\ q[1] = pn.line_idx + 1
                       /\ q[2] < pn.range_bytes.start - 1

----------------------------------------------------------------------------
(* C13 *)

SpanLen(r) == r.end - r.start

\* Every char of the line before char index e (from 0) is one byte long.
SingleByteUpTo(line, e) == \A i \in 1..e : line[i] <= 127

\* C13 as claimed: range_bytes is at least as long as range_chars, and as
\* long if and only if the token and every char before it are single-byte.
C13_LengthsEqualIffSingleByte ==
    Parsed =>
        \A k \in 1..Len(result[1].part_numbers) :
            LET pn == result[1].part_numbers[k] IN
            /\ SpanLen(pn.range_bytes) >= SpanLen(pn.range_chars)
            /\ SpanLen(pn.range_bytes) = SpanLen(pn.range_chars)
                  <=> SingleByteUpTo(DocLines[pn.line_idx + 1], pn.range_chars.end)

\* C13 as amended: range_bytes is always as long as range_chars; range_bytes
\* starts at or after range_chars, and at the same index if and only if
\* every char before the token is single-byte.
C13_LengthsEqualStartsDiffer ==
    Parsed =>
        \A k \in 1..Len(result[1].part_numbers) :
            LET pn == result[1].part_numbers[k] IN
            /\ SpanLen(pn.range_bytes) = SpanLen(pn.range_chars)
            /\ pn.range_bytes.start >= pn.range_chars.start
            /\ pn.range_bytes.start = pn.range_chars.start
                  <=> SingleByteUpTo(DocLines[pn.line_idx + 1], pn.range_chars.start)

\* A part number behind a multi-byte char.
C13_Witness ==
    /\ Parsed
    /\ \E k \in 1..Len(result[1].part_numbers) :
          ~SingleByteUpTo(DocLines[result[1].part_numbers[k].line_idx + 1],
                          result[1].part_numbers[k].range_chars.start)

----------------------------------------------------------------------------
(* C14 *)

\* C14: in a document of ASCII chars only, range_chars equals range_bytes for
\* every part number and index_chars equals index_bytes for every gear.
C14_AsciiCharsAreBytes ==
    (Parsed /\ \A i \in 1..Len(schematic) : schematic[i] <= 127) =>
        /\ \A k \in 1..Len(result[1].part_numbers) :
              result[1].part_numbers[k].range_chars = result[1].part_numbers[k].range_bytes
        /\ \A k \in 1..Len(result[1].gears) :
              /\ result[1].gears[k].index_chars = result[1].gears[k].index_bytes
              /\ \A n \in 1..2 : result[1].gears[k].neighbors[n].range_chars
                                    = result[1].gears[k].neighbors[n].range_bytes

\* An ASCII document with a gear and a part number away from column 0.
C14_Witness ==
    /\ Parsed
    /\ \A i \in 1..Len(schematic) : schematic[i] <= 127
    /\ \E k \in 1..Len(result[1].gears) : result[1].gears[k].index_bytes > 0
    /\ \E k \in 1..Len(result[1].part_numbers) :
          result[1].part_numbers[k].range_bytes.start > 0

----------------------------------------------------------------------------
(* C15 *)

\* C15: gear_ratio is the exact product of the two neighbours' values,
\* neither wrapped nor a panic, in a build with overflow checks and in one
\* without.
C15_GearRatioExact ==
    Parsed =>
        \A k \in 1..Len(result[1].gears), overflow_checks \in BOOLEAN :
            LET a == result[1].gears[k].neighbors[1].part_number
                b == result[1].gears[k].neighbors[2].part_number
                ratio == gear_ratio(result[1].gears[k], overflow_checks)
            IN /\ ratio # None
               /\ ratio[1] \o Zeros(U64Bytes) = MulLimbs(a, b, 1, Zeros(2 * U64Bytes))


----------------------------------------------------------------------------
(* Day 1: first_and_last_digit.rs *)

\* u8::MAX
U8Max == 255

\* <u8 as FromStr>::from_str over the chars from i on:
\* result = result.checked_mul(10)?.checked_add(digit)?
RECURSIVE ParseU8From(_, _, _)
ParseU8From(s, i, acc) ==
    IF i > Len(s) THEN Some(acc)
    ELSE IF ~is_ascii_digit(s[i]) THEN None
    ELSE IF acc * 10 + (s[i] - 48) > U8Max THEN None
    ELSE ParseU8From(s, i + 1, acc * 10 + (s[i] - 48))

\* str::parse::<u8>().ok(): no digits, or a lone sign, is an error; one
\* leading '+' is accepted.
parse_u8(s) ==
    IF s = <<>> THEN None
    ELSE IF Len(s) = 1 /\ s[1] \in {43, 45} THEN None
    ELSE ParseU8From(s, IF s[1] = 43 THEN 2 ELSE 1, 0)

\* Mutant: the zero is kept.
RECURSIVE nonzero_digits_KeepZero(_)
nonzero_digits_KeepZero(s) ==
    IF s = <<>> THEN <<>>
    ELSE LET d == parse_u8(<<Head(s)>>) IN
         (IF d # None THEN <<d[1]>> ELSE <<>>) \o nonzero_digits_KeepZero(Tail(s))

\* input.chars().filter_map(|c| c.to_string().parse::<u8>().ok())
\*      .filter(|&digit| digit != 0), as a sequence
RECURSIVE nonzero_digits(_)
nonzero_digits(s) ==
    IF s = <<>> THEN <<>>
    ELSE LET d == parse_u8(<<Head(s)>>) IN
         (IF d # None /\ d[1] # 0 THEN <<d[1]>> ELSE <<>>) \o nonzero_digits(Tail(s))

first_and_last_digit_decimal(s) ==
    LET digits == nonzero_digits(s) IN
    IF digits = <<>> THEN None
    ELSE LET first == Head(digits)
             rest == Tail(digits)
             last == IF rest = <<>> THEN first ELSE rest[Len(rest)]
         IN Some(<<first, last>>)

DIGITS ==
    <<<<<<111, 110, 101>>, 1>>,
      <<<<116, 119, 111>>, 2>>,
      <<<<116, 104, 114, 101, 101>>, 3>>,
      <<<<102, 111, 117, 114>>, 4>>,
      <<<<102, 105, 118, 101>>, 5>>,
      <<<<115, 105, 120>>, 6>>,
      <<<<115, 101, 118, 101, 110>>, 7>>,
      <<<<101, 105, 103, 104, 116>>, 8>>,
      <<<<110, 105, 110, 101>>, 9>>>>

\* s has pat at char index i (from 0).
MatchesAt(s, pat, i) ==
    i + Len(pat) <= Len(s) /\ SubSeq(s, i + 1, i + Len(pat)) = pat

\* str::find: the byte index of the first match.
find(s, pat) ==
    LET at == {i \in 0..Len(s) : MatchesAt(s, pat, i)} IN
    IF at = {} THEN None
    ELSE Some(str_len(SubSeq(s, 1, CHOOSE i \in at : \A j \in at : i <= j)))

\* str::rfind: the byte index of the last match.
rfind(s, pat) ==
    LET at == {i \in 0..Len(s) : MatchesAt(s, pat, i)} IN
    IF at = {} THEN None
    ELSE Some(str_len(SubSeq(s, 1, CHOOSE i \in at : \A j \in at : i >= j)))

\* char::from_digit(digit, 10).unwrap()
from_digit(digit) == 48 + digit

\* [a, b].into_iter().flatten().min()
min_of(a, b) ==
    IF a = None THEN b ELSE IF b = None THEN a ELSE IF a[1] <= b[1] THEN a ELSE b

\* [a, b].into_iter().flatten().max()
max_of(a, b) ==
    IF a = None THEN b ELSE IF b = None THEN a ELSE IF a[1] >= b[1] THEN a ELSE b

\* The first filter_map, from entry k of DIGITS on: (digit, first_idx) of
\* every digit found.
RECURSIVE first_indices(_, _)
first_indices(s, k) ==
    IF k > Len(DIGITS) THEN <<>>
    ELSE LET first_idx == min_of(find(s, DIGITS[k][1]), find(s, <<from_digit(DIGITS[k][2])>>))
         IN (IF first_idx = None THEN <<>> ELSE <<<<DIGITS[k][2], first_idx[1]>>>>)
                \o first_indices(s, k + 1)

\* Mutant: find where the source has rfind.
RECURSIVE last_indices_Find(_, _)
last_indices_Find(s, k) ==
    IF k > Len(DIGITS) THEN <<>>
    ELSE LET last_idx == max_of(find(s, DIGITS[k][1]), find(s, <<from_digit(DIGITS[k][2])>>))
         IN (IF last_idx = None THEN <<>> ELSE <<<<DIGITS[k][2], last_idx[1]>>>>)
                \o last_indices_Find(s, k + 1)

\* The second filter_map: (digit, last_idx) of every digit found.
RECURSIVE last_indices(_, _)
last_indices(s, k) ==
    IF k > Len(DIGITS) THEN <<>>
    ELSE LET last_idx == max_of(rfind(s, DIGITS[k][1]), rfind(s, <<from_digit(DIGITS[k][2])>>))
         IN (IF last_idx = None THEN <<>> ELSE <<<<DIGITS[k][2], last_idx[1]>>>>)
                \o last_indices(s, k + 1)

\* Iterator::min_by_key on the index: of several minima the first.
min_by_key(xs) ==
    IF xs = <<>> THEN None
    ELSE Some(xs[CHOOSE i \in 1..Len(xs) :
                    /\ \A j \in 1..Len(xs) : xs[i][2] <= xs[j][2]
                    /\ \A j \in 1..(i - 1) : xs[j][2] > xs[i][2]])

\* Iterator::max_by_key on the index: of several maxima the last.
max_by_key(xs) ==
    IF xs = <<>> THEN None
    ELSE Some(xs[CHOOSE i \in 1..Len(xs) :
                    /\ \A j \in 1..Len(xs) : xs[i][2] >= xs[j][2]
                    /\ \A j \in (i + 1)..Len(xs) : xs[j][2] < xs[i][2]])

first_and_last_digit_decimal_or_spelled(s) ==
    LET first_digit == min_by_key(first_indices(s, 1)) IN
    IF first_digit = None THEN None
    ELSE LET last_digit == max_by_key(last_indices(s, 1)) IN
         IF last_digit = None THEN None
         ELSE Some(<<first_digit[1][1], last_digit[1][1]>>)


----------------------------------------------------------------------------
(* Day 1: mod.rs *)

\* u8 arithmetic: an overflow panics in a build with overflow checks and
\* wraps in one without.
u8_mul(a, b, overflow_checks) ==
    IF a * b <= U8Max THEN Some(a * b)
    ELSE IF overflow_checks THEN None ELSE Some((a * b) % (U8Max + 1))

u8_add(a, b, overflow_checks) ==
    IF a + b <= U8Max THEN Some(a + b)
    ELSE IF overflow_checks THEN None ELSE Some((a + b) % (U8Max + 1))

\* Mutant: the panic only when both digits are above 9.
concatenate_digits_BothAbove(most, least, overflow_checks) ==
    IF (most > 9) /\ (least > 9) THEN None
    ELSE LET tens == u8_mul(most, 10, overflow_checks) IN
         IF tens = None THEN None ELSE u8_add(tens[1], least, overflow_checks)

\* None is a panic.
concatenate_digits(most, least, overflow_checks) ==
    IF (most > 9) \/ (least > 9) THEN None
    ELSE LET tens == u8_mul(most, 10, overflow_checks) IN
         IF tens = None THEN None ELSE u8_add(tens[1], least, overflow_checks)

\* Iterator::enumerate
enumerate(xs) == [i \in 1..Len(xs) |-> <<i - 1, xs[i]>>]

\* Mutant: the empty lines are dropped before the lines are numbered.
enumerate_non_empty_FilterFirst(s) ==
    enumerate(SelectSeq(Lines(s), LAMBDA l : l # <<>>))

\* input.lines().enumerate().filter(|(_, line)| !line.is_empty())
enumerate_non_empty(s) ==
    SelectSeq(enumerate(Lines(s)), LAMBDA item : item[2] # <<>>)

\* The digit_algorithm argument, called.
call_digit_algorithm(algorithm, line) ==
    IF algorithm = "decimal" THEN first_and_last_digit_decimal(line)
    ELSE first_and_last_digit_decimal_or_spelled(line)

\* anyhow!("Line {} (contents: `{}`) does not contain any digits", ..)
NoDigitsError(line_number, line) ==
    [tag |-> "Err", line_number |-> line_number, contents |-> line]

SumOk(sum) == [tag |-> "Ok", sum |-> sum]

(* Documents of day 1 *)

MaxTokens == 3

MaxDay1Lines == 3

Day1Tokens ==
    {<<111, 110, 101>>,
     <<116, 119, 111>>,
     <<101, 105, 103, 104, 116>>,
     <<49>>,
     <<55>>,
     <<48>>,
     <<120>>,
     <<119, 111>>,
     <<110, 101>>,
     <<105, 103, 104, 116>>}

\* One line of at most n tokens.
RECURSIVE TokenLines(_)
TokenLines(n) ==
    IF n = 0 THEN {<<>>}
    ELSE LET shorter == TokenLines(n - 1) IN
         shorter \cup {t \o s : t \in Day1Tokens, s \in shorter}

Day1Lines ==
    {<<>>,
     <<120>>,
     <<49, 48, 98, 99, 51>>,
     <<116, 119, 111, 110, 101>>,
     <<122, 101, 114, 111>>,
     <<116, 104, 114, 101, 101, 102, 111, 117, 114, 102, 105, 118, 101>>,
     <<115, 105, 120, 115, 101, 118, 101, 110, 105, 110, 101>>}

\* At most n lines, each ended by a line feed.
RECURSIVE LineDocs(_)
LineDocs(n) ==
    IF n = 0 THEN {<<>>}
    ELSE LET shorter == LineDocs(n - 1) IN
         shorter \cup {l \o <<LF>> \o d : l \in Day1Lines, d \in shorter}

\* The input of test_empty_lines.
EmptyLinesData ==
    <<57, 57, 10, 50, 10, 10, 49, 10, 10, 55, 10, 53, 97, 98, 99, 57, 10, 49,
      97, 98, 99, 51>>

\* The input of test_real_data_decimal_or_spelled.
SpelledData ==
    <<116, 119, 111, 49, 110, 105, 110, 101, 10, 101, 105, 103, 104, 116,
      119, 111, 116, 104, 114, 101, 101, 10, 97, 98, 99, 111, 110, 101, 50,
      116, 104, 114, 101, 101, 120, 121, 122, 10, 120, 116, 119, 111, 110,
      101, 51, 102, 111, 117, 114, 10, 52, 110, 105, 110, 101, 101, 105, 103,
      104, 116, 115, 101, 118, 101, 110, 50, 10, 122, 111, 110, 101, 105,
      103, 104, 116, 50, 51, 52, 10, 55, 112, 113, 114, 115, 116, 115, 105,
      120, 116, 101, 101, 110>>

\* Lines ended by CR LF.
CrLfData ==
    <<55, 13, 10, 13, 10, 116, 104, 105, 114, 116, 101, 101, 110, 13, 10>>

Day1Docs ==
    TokenLines(MaxTokens) \cup LineDocs(MaxDay1Lines)
        \cup {EmptyLinesData, SpelledData, CrLfData}

(* sum_first_and_last_digits as a state machine: one step per item of the
   iterator, then the end of the sum.  The sum is a u64; it grows by at most
   U8Max per line, so it stays far below 2^64 for every document here. *)

InitDay1 ==
    /\ Day3Idle
    /\ ConcatenateIdle
    /\ Day2Idle
    /\ Day4Idle
    /\ d1_input \in Day1Docs
    /\ digit_algorithm \in {"decimal", "spelled"}
    /\ d1_pc = "sum"
    /\ d1_pos = 0
    /\ d1_last = None
    /\ d1_sum = 0
    /\ d1_result = None

\* The closure of map on the next item: `?` on a line without digits ends
\* the sum with the error.
MapLine ==
    /\ d1_pc = "sum"
    /\ d1_pos < Len(enumerate_non_empty(d1_input))
    /\ LET item == enumerate_non_empty(d1_input)[d1_pos + 1]
           idx == item[1]
           text == item[2]
           found == call_digit_algorithm(digit_algorithm, text)
       IN /\ d1_last' = Some([line_idx |-> idx, line |-> text, found |-> found])
          /\ IF found = None
             THEN /\ d1_result' = Some(NoDigitsError(idx + 1, text))
                  /\ d1_pc' = "returned"
                  /\ UNCHANGED <<d1_pos, d1_sum>>
             ELSE \E overflow_checks \in BOOLEAN :
                    LET concatenated_u8 ==
                            concatenate_digits(found[1][1], found[1][2], overflow_checks)
                    IN IF concatenated_u8 = None
                       THEN /\ d1_pc' = "panicked"
                            /\ UNCHANGED <<d1_pos, d1_sum, d1_result>>
                       ELSE /\ d1_sum' = d1_sum + concatenated_u8[1]
                            /\ d1_pos' = d1_pos + 1
                            /\ UNCHANGED <<d1_pc, d1_result>>
    /\ UNCHANGED <<d1_input, digit_algorithm>>
    /\ UNCHANGED <<day3vars, concatvars, day2vars, day4vars>>

\* The iterator is exhausted: sum::<Result<u64>>() is Ok.
SumReturn ==
    /\ d1_pc = "sum"
    /\ d1_pos = Len(enumerate_non_empty(d1_input))
    /\ d1_result' = Some(SumOk(d1_sum))
    /\ d1_pc' = "returned"
    /\ UNCHANGED <<d1_input, digit_algorithm, d1_pos, d1_last, d1_sum>>
    /\ UNCHANGED <<day3vars, concatvars, day2vars, day4vars>>

NextDay1 == MapLine \/ SumReturn

SpecDay1 == InitDay1 /\ [][NextDay1]_vars

(* concatenate_digits on its own, for every pair of u8 *)

InitConcatenate ==
    /\ Day3Idle
    /\ Day1Idle
    /\ Day2Idle
    /\ Day4Idle
    /\ most_sigificant \in 0..U8Max
    /\ least_significant \in 0..U8Max
    /\ cd_pc = "call"
    /\ concatenated = None

Concatenate ==
    /\ cd_pc = "call"
    /\ \E overflow_checks \in BOOLEAN :
         LET r == concatenate_digits(most_sigificant, least_significant, overflow_checks)
         IN /\ concatenated' = r
            /\ cd_pc' = IF r = None THEN "panicked" ELSE "returned"
    /\ UNCHANGED <<most_sigificant, least_significant>>
    /\ UNCHANGED <<day3vars, day1vars, day2vars, day4vars>>

NextConcatenate == Concatenate

SpecConcatenate == InitConcatenate /\ [][NextConcatenate]_vars


----------------------------------------------------------------------------
(* Day 1: the properties *)

\* The line of the last call of the digit algorithm, and what it returned.
LastLine == d1_last[1].line

LastFound == d1_last[1].found

\* The places (from 1) of the chars '1'..'9' of a line.
Numerals(s) == {i \in 1..Len(s) : s[i] \in 49..57}

MinOf(S) == CHOOSE x \in S : \A y \in S : x <= y

MaxOf(S) == CHOOSE x \in S : \A y \in S : x >= y

\* C17: first_and_last_digit_decimal returns None when the line has no char
\* in '1'..'9' ('0' and every other char are ignored); otherwise it returns
\* the leftmost and the rightmost such digit, which are the same digit when
\* there is exactly one.
C17_DecimalFirstAndLast ==
    (d1_last # None /\ digit_algorithm = "decimal") =>
        LET P == Numerals(LastLine) IN
        /\ (P = {}) <=> (LastFound = None)
        /\ P # {} =>
             LastFound = Some(<<LastLine[MinOf(P)] - 48, LastLine[MaxOf(P)] - 48>>)
        /\ Cardinality(P) = 1 => LastFound[1][1] = LastFound[1][2]

\* A line with a '0', a char that is no digit and two different digits.
C17_Witness ==
    /\ d1_last # None
    /\ digit_algorithm = "decimal"
    /\ \E i \in 1..Len(LastLine) : LastLine[i] = 48
    /\ \E i \in 1..Len(LastLine) : ~is_ascii_digit(LastLine[i])
    /\ LastFound # None
    /\ LastFound[1][1] # LastFound[1][2]

\* The word of digit d.
WordOf(d) == DIGITS[CHOOSE k \in 1..Len(DIGITS) : DIGITS[k][2] = d][1]

\* The occurrences <<start, digit>> of a line: a numeral '1'..'9' at start,
\* or the word of the digit beginning at start (from 0).
Occurrences(s) ==
    {o \in (0..(Len(s) - 1)) \X (1..9) :
        \/ s[o[1] + 1] = 48 + o[2]
        \/ MatchesAt(s, WordOf(o[2]), o[1])}

FirstOccurrence(s) ==
    LET occ == Occurrences(s) IN
    CHOOSE o \in occ : \A q \in occ : o[1] <= q[1]

LastOccurrence(s) ==
    LET occ == Occurrences(s) IN
    CHOOSE o \in occ : \A q \in occ : o[1] >= q[1]

\* C18: first_and_last_digit_decimal_or_spelled counts the numerals '1'..'9'
\* and the words "one".."nine" as occurrences, overlapping words included;
\* it returns the digit of the occurrence with the smallest start and the
\* digit of the occurrence with the largest start, and None when the line
\* has no occurrence.
C18_SpelledFirstAndLast ==
    (d1_last # None /\ digit_algorithm = "spelled") =>
        IF Occurrences(LastLine) = {} THEN LastFound = None
        ELSE LastFound = Some(<<FirstOccurrence(LastLine)[2], LastOccurrence(LastLine)[2]>>)

\* Two words overlap, and the last digit is the one of the overlapping word.
C18_Witness ==
    /\ d1_last # None
    /\ digit_algorithm = "spelled"
    /\ LastFound # None
    /\ \E o \in Occurrences(LastLine) :
         LET q == LastOccurrence(LastLine) IN
         /\ MatchesAt(LastLine, WordOf(o[2]), o[1])
         /\ MatchesAt(LastLine, WordOf(q[2]), q[1])
         /\ o[1] < q[1]
         /\ q[1] < o[1] + Len(WordOf(o[2]))
         /\ LastFound[1][2] = q[2]

\* The sum of 10 * first + last over the non-empty lines of L from k on.
RECURSIVE SumOfLines(_, _, _)
SumOfLines(L, k, algorithm) ==
    IF k > Len(L) THEN 0
    ELSE (IF L[k] = <<>> THEN 0
          ELSE LET found == call_digit_algorithm(algorithm, L[k])
               IN 10 * found[1][1] + found[1][2])
         + SumOfLines(L, k + 1, algorithm)

\* The numbers (from 1, empty lines counted) of the non-empty lines in which
\* the digit algorithm finds nothing.
NoDigitLines(L, algorithm) ==
    {k \in 1..Len(L) : L[k] # <<>> /\ call_digit_algorithm(algorithm, L[k]) = None}

\* C19: sum_first_and_last_digits skips the empty lines and returns the sum
\* of 10 * first + last over the non-empty lines; when a non-empty line has
\* no digit it returns an error instead, whose line number is the 1-based
\* place of the (first such) line in the input, empty lines counted.
C19_SumSkipsEmptyLines ==
    d1_pc = "returned" =>
        LET L == Lines(d1_input)
            bad == NoDigitLines(L, digit_algorithm) IN
        IF bad = {} THEN d1_result = Some(SumOk(SumOfLines(L, 1, digit_algorithm)))
        ELSE /\ d1_result[1].tag = "Err"
             /\ d1_result[1].line_number = MinOf(bad)
             /\ d1_result[1].contents = L[MinOf(bad)]

\* An error for a line that has an empty line before it, after a line that
\* was summed.
C19_Witness ==
    /\ d1_pc = "returned"
    /\ d1_result[1].tag = "Err"
    /\ d1_sum > 0
    /\ \E k \in 1..(d1_result[1].line_number - 1) : Lines(d1_input)[k] = <<>>

\* C20: concatenate_digits(a, b) panics whenever a > 9 or b > 9, and for a
\* and b in 0..9 it returns 10 * a + b, a value in 0..99, with no overflow
\* of the u8.
C20_ConcatenateDigits ==
    cd_pc # "call" /\ cd_pc # "idle" =>
        /\ (most_sigificant > 9 \/ least_significant > 9) => cd_pc = "panicked"
        /\ (most_sigificant <= 9 /\ least_significant <= 9) =>
             /\ cd_pc = "returned"
             /\ concatenated = Some(10 * most_sigificant + least_significant)
             /\ concatenated[1] \in 0..99

\* The largest pair of digits.
C20_Witness ==
    /\ cd_pc = "returned"
    /\ most_sigificant = 9
    /\ least_significant = 9
    /\ concatenated = Some(99)


----------------------------------------------------------------------------
(* Day 2: draw.rs *)

Space == 32

Red == <<114, 101, 100>>

Green == <<103, 114, 101, 101, 110>>

Blue == <<98, 108, 117, 101>>

\* Draw { num_red, num_green, num_blue }
Draw(r, g, b) == [num_red |-> r, num_green |-> g, num_blue |-> b]

\* Draw::default()
DrawDefault == Draw(0, 0, 0)

DrawOk(draw) == [tag |-> "Ok", draw |-> draw]

\* The error of ensure!, bail! or with_context, by its message.
DrawErr(message) == [tag |-> "Err", message |-> message]

\* str::split with a str pattern: the pieces between the matches, which are
\* taken from the left and do not overlap.
RECURSIVE split(_, _)
split(s, pat) ==
    LET at == {i \in 0..Len(s) : MatchesAt(s, pat, i)} IN
    IF at = {} THEN <<s>>
    ELSE LET i == CHOOSE x \in at : \A y \in at : x <= y
         IN <<SubSeq(s, 1, i)>> \o split(SubSeq(s, i + Len(pat) + 1, Len(s)), pat)

\* str::split_once with a char pattern
split_once(s, c) ==
    LET at == {i \in 1..Len(s) : s[i] = c} IN
    IF at = {} THEN None
    ELSE LET i == CHOOSE x \in at : \A y \in at : x <= y
         IN Some(<<SubSeq(s, 1, i - 1), SubSeq(s, i + 1, Len(s))>>)

\* match color_str: the field of the draw, or None for any other string.
struct_field(color_str) ==
    IF color_str = Red THEN Some("num_red")
    ELSE IF color_str = Green THEN Some("num_green")
    ELSE IF color_str = Blue THEN Some("num_blue")
    ELSE None

\* Mutant: a number of zero is let through.
RECURSIVE DrawLoop_AllowZero(_, _, _)
DrawLoop_AllowZero(parts, k, draw) ==
    IF k > Len(parts) THEN DrawOk(draw)
    ELSE LET once == split_once(parts[k], Space) IN
         IF once = None THEN DrawErr("No space between number and color")
         ELSE LET num == parse_u8(once[1][1])
                  field == struct_field(once[1][2]) IN
              IF num = None THEN DrawErr("Number is not valid")
              ELSE IF field = None THEN DrawErr("Color is not valid")
              ELSE IF draw[field[1]] # 0 THEN DrawErr("Multiple instances")
              ELSE DrawLoop_AllowZero(parts, k + 1,
                                      [draw EXCEPT ![field[1]] = draw[field[1]] + num[1]])

\* The loop of Draw::from_str over the pieces of split(", "), from piece k
\* on.  The field is 0 when num is added, so the u8 does not overflow.
RECURSIVE DrawLoop(_, _, _)
DrawLoop(parts, k, draw) ==
    IF k > Len(parts) THEN DrawOk(draw)
    ELSE LET once == split_once(parts[k], Space) IN
         IF once = None THEN DrawErr("No space between number and color")
         ELSE LET num == parse_u8(once[1][1])
                  field == struct_field(once[1][2]) IN
              IF num = None THEN DrawErr("Number is not valid")
              ELSE IF ~(num[1] > 0) THEN DrawErr("Cannot specify that zero were drawn")
              ELSE IF field = None THEN DrawErr("Color is not valid")
              ELSE IF draw[field[1]] # 0 THEN DrawErr("Multiple instances")
              ELSE DrawLoop(parts, k + 1,
                            [draw EXCEPT ![field[1]] = draw[field[1]] + num[1]])

\* Draw::from_str
Draw_from_str(draw_str) ==
    LET looped == DrawLoop(split(draw_str, <<44, Space>>), 1, DrawDefault) IN
    IF looped.tag = "Err" THEN looped
    ELSE IF ~(looped.draw.num_red > 0 \/ looped.draw.num_green > 0
                \/ looped.draw.num_blue > 0)
         THEN DrawErr("No cubes were drawn (empty string)")
         ELSE looped

(* Day 2: game.rs *)

\* The class \d of the regex crate is the Unicode class Nd.  Of the chars of
\* the lines here, those are the ASCII digits and the Arabic-Indic digits
\* U+0660..U+0669.
is_decimal_number(c) == is_ascii_digit(c) \/ (c >= 1632 /\ c <= 1641)

\* The end (exclusive char index) of the \d* that starts at char p.
RECURSIVE ClassRunEnd(_, _)
ClassRunEnd(s, p) ==
    IF p < Len(s) /\ is_decimal_number(s[p + 1]) THEN ClassRunEnd(s, p + 1) ELSE p

\* (?:\d+ (?:red|green|blue)(?:[,;] )?)+$ from char p on.
RECURSIVE MatchDraws(_, _)
MatchDraws(s, p) ==
    LET e == ClassRunEnd(s, p) IN
    /\ e > p
    /\ e < Len(s)
    /\ s[e + 1] = Space
    /\ \E color \in {Red, Green, Blue} :
         /\ MatchesAt(s, color, e + 1)
         /\ LET k == e + 1 + Len(color) IN
            \/ k = Len(s)
            \/ /\ k + 2 <= Len(s)
               /\ s[k + 1] \in {44, 59}
               /\ s[k + 2] = Space
               /\ (k + 2 = Len(s) \/ MatchDraws(s, k + 2))
            \/ MatchDraws(s, k)

GamePrefix == <<71, 97, 109, 101, 32>>

\* GAME_STR_FORMAT.captures(input): the groups 1 and 2, or None.
captures(s) ==
    IF ~MatchesAt(s, GamePrefix, 0) THEN None
    ELSE LET e == ClassRunEnd(s, Len(GamePrefix)) IN
         IF /\ e > Len(GamePrefix)
            /\ MatchesAt(s, <<58, Space>>, e)
            /\ MatchDraws(s, e + 2)
         THEN Some(<<SubSeq(s, Len(GamePrefix) + 1, e), SubSeq(s, e + 3, Len(s))>>)
         ELSE None

GameOk(id, draws) == [tag |-> "Ok", id |-> id, draws |-> draws]

GameErr(context) == [tag |-> "Err", context |-> context]

\* .map(Draw::from_str).collect::<Result<Vec<Draw>>>(), from piece k on: the
\* first error ends it.
RECURSIVE collect_draws(_, _, _)
collect_draws(parts, k, acc) ==
    IF k > Len(parts) THEN Some(acc)
    ELSE LET d == Draw_from_str(parts[k]) IN
         IF d.tag = "Err" THEN None ELSE collect_draws(parts, k + 1, Append(acc, d.draw))

\* Game::from_str
Game_from_str(s) ==
    LET caps == captures(s) IN
    IF caps = None THEN GameErr("is of invalid format")
    ELSE LET game_id == parse_u64(caps[1][1]) IN
         IF game_id = None THEN GameErr("Game ID is not valid")
         ELSE LET draws == collect_draws(split(caps[1][2], <<59, Space>>), 1, <<>>) IN
              IF draws = None THEN GameErr("A draw has an invalid format")
              ELSE GameOk(game_id[1], draws[1])

\* Mutant: the limit of blue is not looked at.
was_possible_NoBlue(self, max_red, max_green, max_blue) ==
    \A k \in 1..Len(self.draws) :
        self.draws[k].num_red <= max_red /\ self.draws[k].num_green <= max_green

was_possible(self, max_red, max_green, max_blue) ==
    \A k \in 1..Len(self.draws) :
        /\ self.draws[k].num_red <= max_red
        /\ self.draws[k].num_green <= max_green
        /\ self.draws[k].num_blue <= max_blue

u8_max(a, b) == IF a >= b THEN a ELSE b

\* self.draws.iter().fold(previous_max, ..) from draw k on
RECURSIVE fold_max(_, _, _)
fold_max(draws, k, previous_max) ==
    IF k > Len(draws) THEN previous_max
    ELSE fold_max(draws, k + 1,
                  Draw(u8_max(previous_max.num_red, draws[k].num_red),
                       u8_max(previous_max.num_green, draws[k].num_green),
                       u8_max(previous_max.num_blue, draws[k].num_blue)))

\* Mutant: the contents of the last draw.
minimum_bag_contents_LastDraw(self) ==
    IF self.draws = <<>> THEN DrawDefault ELSE self.draws[Len(self.draws)]

\* The fold from Draw::default(): there is no panic in it.
minimum_bag_contents(self) == fold_max(self.draws, 1, DrawDefault)

\* The product of three u8 as u32 is below 2^24.
calculate_power(self) ==
    LET minimum == minimum_bag_contents(self) IN
    minimum.num_red * minimum.num_green * minimum.num_blue


(* Lines and games of day 2 *)

MaxItems == 3

MaxDraws == 2

\* Single draws with the separator that follows them: good ones, a zero, a
\* number above u8::MAX, a negative number and an Arabic-Indic digit.
Day2Items ==
    {<<49, 32, 114, 101, 100, 44, 32>>,
     <<49, 32, 114, 101, 100, 59, 32>>,
     <<50, 32, 98, 108, 117, 101, 44, 32>>,
     <<50, 32, 98, 108, 117, 101, 59, 32>>,
     <<50, 53, 53, 32, 103, 114, 101, 101, 110>>,
     <<51, 32, 114, 101, 100>>,
     <<48, 32, 98, 108, 117, 101, 44, 32>>,
     <<50, 53, 54, 32, 103, 114, 101, 101, 110, 59, 32>>,
     <<45, 49, 32, 114, 101, 100>>,
     <<1635, 32, 98, 108, 117, 101>>}

\* At most n items in a row.
RECURSIVE ItemRows(_)
ItemRows(n) ==
    IF n = 0 THEN {<<>>}
    ELSE LET shorter == ItemRows(n - 1) IN
         shorter \cup {t \o r : t \in Day2Items, r \in shorter}

GameOne == <<71, 97, 109, 101, 32, 49, 58, 32>>

\* Beginnings of a line, up to the first draw.
Day2Headers ==
    {<<71, 97, 109, 101, 32, 49, 58, 32>>,
     <<71, 97, 109, 101, 32, 45, 49, 58, 32>>,
     <<71, 97, 109, 101, 32, 49, 56, 52, 52, 54, 55, 52, 52, 48, 55, 51, 55, 48, 57, 53, 53, 49, 54, 49, 54, 58, 32>>,
     <<71, 97, 109, 101, 32, 49, 56, 52, 52, 54, 55, 52, 52, 48, 55, 51, 55, 48, 57, 53, 53, 49, 54, 49, 53, 58, 32>>,
     <<71, 97, 109, 101, 32, 48, 48, 55, 58, 32>>,
     <<71, 97, 109, 101, 32, 1633, 58, 32>>,
     <<71, 97, 109, 101, 32, 49, 58>>,
     <<103, 97, 109, 101, 32, 49, 58, 32>>,
     <<71, 97, 109, 101, 32, 58, 32>>}

\* The line of test_parse_game_example_data_game1.
Game1Data ==
    <<71, 97, 109, 101, 32, 49, 58, 32, 51, 32, 98, 108, 117, 101, 44, 32,
      52, 32, 114, 101, 100, 59, 32, 49, 32, 114, 101, 100, 44, 32, 50, 32,
      103, 114, 101, 101, 110, 44, 32, 54, 32, 98, 108, 117, 101, 59, 32, 50,
      32, 103, 114, 101, 101, 110>>

\* The line of test_parse_game_single_draw_max_values.
MaxValuesData ==
    <<71, 97, 109, 101, 32, 54, 58, 32, 50, 53, 53, 32, 114, 101, 100, 44,
      32, 50, 53, 53, 32, 98, 108, 117, 101, 44, 32, 50, 53, 53, 32, 103,
      114, 101, 101, 110>>

Day2Lines ==
    {GameOne \o r : r \in ItemRows(MaxItems)}
        \cup {h \o <<51, 32, 114, 101, 100>> : h \in Day2Headers}
        \cup {Game1Data, MaxValuesData}

\* Games built from their fields, as the tests of was_possible and of
\* minimum_bag_contents build them.
Day2Counts == {0, 13, 14}

Day2Draws == {Draw(r, g, b) : r \in Day2Counts, g \in Day2Counts, b \in Day2Counts}

RECURSIVE DrawRows(_)
DrawRows(n) ==
    IF n = 0 THEN {<<>>}
    ELSE LET shorter == DrawRows(n - 1) IN
         shorter \cup {<<d>> \o r : d \in Day2Draws, r \in shorter}

\* The game of test_possible_multiple_draws.
Game100 ==
    GameOk(U64Of(100), <<Draw(3, 6, 3), Draw(7, 2, 16), Draw(9, 14, 9),
                         Draw(8, 10, 9), Draw(11, 0, 6)>>)

BuiltGames == {GameOk(U64Of(17), r) : r \in DrawRows(MaxDraws)} \cup {Game100}

\* PART1_MAX_RED_CUBES, PART1_MAX_GREEN_CUBES, PART1_MAX_BLUE_CUBES
Part1Limits == <<12, 13, 14>>

Day2Limits == {Part1Limits, <<13, 14, 13>>, <<11, 14, 16>>, <<0, 0, 0>>}

(* Game::from_str, was_possible and calculate_power as a state machine *)

InitDay2 ==
    /\ Day3Idle
    /\ Day1Idle
    /\ ConcatenateIdle
    /\ Day4Idle
    /\ \/ /\ d2_input \in {Some(l) : l \in Day2Lines}
          /\ d2_pc = "from_str"
          /\ d2_game = None
       \/ /\ d2_input = None
          /\ d2_pc = "parsed"
          /\ d2_game \in {Some(g) : g \in BuiltGames}
    /\ d2_limits = None
    /\ d2_possible = None
    /\ d2_minimum = None
    /\ d2_power = None

GameFromStr ==
    /\ d2_pc = "from_str"
    /\ LET game == Game_from_str(d2_input[1]) IN
       /\ d2_game' = Some(game)
       /\ d2_pc' = IF game.tag = "Ok" THEN "parsed" ELSE "parse_err"
    /\ UNCHANGED <<d2_input, d2_limits, d2_possible, d2_minimum, d2_power>>
    /\ UNCHANGED <<day3vars, day1vars, concatvars, day4vars>>

WasPossible ==
    /\ d2_pc = "parsed"
    /\ \E limits \in Day2Limits :
         /\ d2_limits' = Some(limits)
         /\ d2_possible' = Some(was_possible(d2_game[1], limits[1], limits[2], limits[3]))
    /\ d2_pc' = "checked"
    /\ UNCHANGED <<d2_input, d2_game, d2_minimum, d2_power>>
    /\ UNCHANGED <<day3vars, day1vars, concatvars, day4vars>>

\* calculate_power, with the minimum_bag_contents it calls.
CalculatePower ==
    /\ d2_pc = "checked"
    /\ d2_minimum' = Some(minimum_bag_contents(d2_game[1]))
    /\ d2_power' = Some(calculate_power(d2_game[1]))
    /\ d2_pc' = "done"
    /\ UNCHANGED <<d2_input, d2_game, d2_limits, d2_possible>>
    /\ UNCHANGED <<day3vars, day1vars, concatvars, day4vars>>

NextDay2 == GameFromStr \/ WasPossible \/ CalculatePower

SpecDay2 == InitDay2 /\ [][NextDay2]_vars


----------------------------------------------------------------------------
(* Day 2: the properties *)

\* The line handed to Game::from_str and the game or error it gave.
GameLine == d2_input[1]

GameResult == d2_game[1]

FromStrDone == d2_input # None /\ d2_game # None

\* The value of a numeral of ASCII digits, or 256 when it is above 255.
RECURSIVE CountOf(_, _)
CountOf(numeral, acc) ==
    IF numeral = <<>> THEN acc
    ELSE CountOf(Tail(numeral),
                 IF 10 * acc + (Head(numeral) - 48) > 255 THEN 256
                 ELSE 10 * acc + (Head(numeral) - 48))

ColourNames == {<<Red, "num_red">>, <<Green, "num_green">>, <<Blue, "num_blue">>}

\* The draws written from char p on, read one "<count> <colour>" at a time:
\* ", " goes on with the same draw, "; " begins the next one.  None when the
\* text is not a list of draws, a count is not in 1..255 or a colour comes
\* twice in a draw.
RECURSIVE DrawsWritten(_, _, _, _)
DrawsWritten(s, p, current, acc) ==
    LET e == RunEnd(s, p)
        count == CountOf(SubSeq(s, p + 1, e), 0)
        named == {c \in ColourNames : MatchesAt(s, c[1], e + 1)}
    IN IF e = p \/ count < 1 \/ count > 255 \/ e >= Len(s) THEN None
       ELSE IF s[e + 1] # Space \/ named = {} THEN None
       ELSE LET c == CHOOSE x \in named : TRUE
                k == e + 1 + Len(c[1])
                next == [current EXCEPT ![c[2]] = count]
            IN IF current[c[2]] # 0 THEN None
               ELSE IF k = Len(s) THEN Some(Append(acc, next))
               ELSE IF MatchesAt(s, <<44, Space>>, k)
                    THEN DrawsWritten(s, k + 2, next, acc)
               ELSE IF MatchesAt(s, <<59, Space>>, k)
                    THEN DrawsWritten(s, k + 2, DrawDefault, Append(acc, next))
               ELSE None

\* The numeral between "Game " and ": ", when the line begins that way.
IdWritten(s) ==
    IF MatchesAt(s, GamePrefix, 0) /\ RunEnd(s, Len(GamePrefix)) > Len(GamePrefix)
          /\ MatchesAt(s, <<58, Space>>, RunEnd(s, Len(GamePrefix)))
    THEN Some(SubSeq(s, Len(GamePrefix) + 1, RunEnd(s, Len(GamePrefix))))
    ELSE None

\* The draws of a line "Game <id>: <draw>; <draw>; ...", None for any other
\* line.
GameWritten(s) ==
    IF IdWritten(s) = None THEN None
    ELSE DrawsWritten(s, Len(GamePrefix) + Len(IdWritten(s)[1]) + 2, DrawDefault, <<>>)

\* The lines that the words of C21 leave to be errors.
NamedBad(s) ==
    \/ \E i \in 1..Len(s) : s[i] = 45
    \/ IdWritten(s) # None /\ Len(s) = Len(GamePrefix) + Len(IdWritten(s)[1]) + 2

\* C21 as stated, with <id> any numeral: Game::from_str succeeds exactly for
\* the lines "Game <id>: <draw>; <draw>; ..." whose draws name each colour
\* at most once with a count in 1..255, and then gives the id and the draws
\* in the order of the line with 0 for the colours not named; a line with a
\* minus sign or without draws is an error.
C21_SucceedsExactlyForTheForm ==
    FromStrDone =>
        /\ (GameResult.tag = "Ok") <=> (GameWritten(GameLine) # None)
        /\ GameResult.tag = "Ok" =>
              /\ DecimalOf(GameResult.id) = StripZeros(IdWritten(GameLine)[1])
              /\ GameResult.draws = GameWritten(GameLine)[1]
        /\ NamedBad(GameLine) => GameResult.tag = "Err"

\* C21, amended: as above, for the lines whose <id> is a numeral of at most
\* u64::MAX; a larger id is an error.
C21_SucceedsForTheFormWithU64Id ==
    FromStrDone =>
        /\ (GameResult.tag = "Ok") <=>
              (GameWritten(GameLine) # None /\ FitsU64(IdWritten(GameLine)[1]))
        /\ GameResult.tag = "Ok" =>
              /\ DecimalOf(GameResult.id) = StripZeros(IdWritten(GameLine)[1])
              /\ GameResult.draws = GameWritten(GameLine)[1]
        /\ NamedBad(GameLine) => GameResult.tag = "Err"

\* A line of two draws, one of them with two colours and so with a colour
\* that is not named, is parsed.
C21_Witness ==
    /\ FromStrDone
    /\ GameResult.tag = "Ok"
    /\ Len(GameResult.draws) = 2
    /\ \E k \in 1..2 : GameResult.draws[k].num_red = 0
                       /\ GameResult.draws[k].num_blue > 0
                       /\ GameResult.draws[k].num_green > 0

\* The game whose methods were called.
CalledGame == d2_game[1]

\* C22: was_possible(max_red, max_green, max_blue) is true exactly when no
\* draw of the game has more red than max_red, more green than max_green or
\* more blue than max_blue.
C22_PossibleIffEveryDrawWithinLimits ==
    d2_possible # None =>
        (d2_possible[1] <=>
            ~\E k \in 1..Len(CalledGame.draws) :
                \/ CalledGame.draws[k].num_red > d2_limits[1][1]
                \/ CalledGame.draws[k].num_green > d2_limits[1][2]
                \/ CalledGame.draws[k].num_blue > d2_limits[1][3])

\* One draw is above the limit of blue only, every other draw is within the
\* limits, and the answer is false.
C22_Witness ==
    /\ d2_possible = Some(FALSE)
    /\ Len(CalledGame.draws) >= 2
    /\ Cardinality({k \in 1..Len(CalledGame.draws) :
                       CalledGame.draws[k].num_blue > d2_limits[1][3]}) = 1
    /\ \A k \in 1..Len(CalledGame.draws) :
            /\ CalledGame.draws[k].num_red <= d2_limits[1][1]
            /\ CalledGame.draws[k].num_green <= d2_limits[1][2]

\* The largest count of a colour over the draws, 0 when there is no draw.
LargestCount(draws, field) ==
    IF draws = <<>> THEN 0 ELSE MaxOf({draws[k][field] : k \in 1..Len(draws)})

C24_PanicsWithoutDraws ==
    (d2_game # None /\ CalledGame.tag = "Ok" /\ CalledGame.draws = <<>>) =>
        (d2_pc # "done" /\ d2_minimum = None)


----------------------------------------------------------------------------
(* Day 4: scratchcard.rs *)

Scratchcard(winning_numbers, our_numbers, copies) ==
    [winning_numbers |-> winning_numbers, our_numbers |-> our_numbers, copies |-> copies]

\* The end (exclusive char index) of the run of spaces that starts at char p.
RECURSIVE SpaceRunEnd(_, _)
SpaceRunEnd(s, p) ==
    IF p < Len(s) /\ s[p + 1] = Space THEN SpaceRunEnd(s, p + 1) ELSE p

\* The end (exclusive char index) of the [0-9 ]* that starts at char p.
RECURSIVE NumbersEnd(_, _)
NumbersEnd(s, p) ==
    IF p < Len(s) /\ (is_ascii_digit(s[p + 1]) \/ s[p + 1] = Space)
    THEN NumbersEnd(s, p + 1) ELSE p

\* The length of s without the spaces at its end.
RECURSIVE TrailingSpacesStart(_)
TrailingSpacesStart(s) ==
    IF s # <<>> /\ s[Len(s)] = Space THEN TrailingSpacesStart(SubSeq(s, 1, Len(s) - 1))
    ELSE Len(s)

CardWord == <<67, 97, 114, 100>>

\* ` +([0-9 ]+?) +` on the text between ':' and '|': the first ` +` is greedy
\* and the group lazy, so the group is the text without the spaces around
\* it; a text of three or more spaces leaves one space to the group.
group_one(middle) ==
    LET lead == SpaceRunEnd(middle, 0)
        trail == TrailingSpacesStart(middle) IN
    IF lead = Len(middle)
    THEN (IF Len(middle) >= 3 THEN Some(<<Space>>) ELSE None)
    ELSE IF lead >= 1 /\ trail < Len(middle)
         THEN Some(SubSeq(middle, lead + 1, trail))
         ELSE None

\* ` +([0-9 ]+)$` on the text after '|': the group runs to the end of the
\* line; a text of two or more spaces leaves one space to the group.
group_two(tail) ==
    LET lead == SpaceRunEnd(tail, 0) IN
    IF lead = Len(tail)
    THEN (IF Len(tail) >= 2 THEN Some(<<Space>>) ELSE None)
    ELSE IF lead >= 1 THEN Some(SubSeq(tail, lead + 1, Len(tail)))
         ELSE None

\* SCRATCHCARD_FORMAT.captures(input): the groups 1 and 2, or None.
scratchcard_captures(s) ==
    IF ~MatchesAt(s, CardWord, 0) THEN None
    ELSE LET e1 == SpaceRunEnd(s, Len(CardWord))
             e2 == RunEnd(s, e1)
             bar == NumbersEnd(s, e2 + 1) IN
         IF /\ e1 > Len(CardWord)
            /\ e2 > e1
            /\ e2 < Len(s)
            /\ s[e2 + 1] = 58
            /\ bar < Len(s)
            /\ s[bar + 1] = 124
            /\ NumbersEnd(s, bar + 1) = Len(s)
            /\ group_one(SubSeq(s, e2 + 2, bar)) # None
            /\ group_two(SubSeq(s, bar + 2, Len(s))) # None
         THEN Some(<<group_one(SubSeq(s, e2 + 2, bar))[1],
                     group_two(SubSeq(s, bar + 2, Len(s)))[1]>>)
         ELSE None

\* ANY_NUMBER_OF_SPACES.split(input): the pieces between the runs of spaces,
\* an empty piece before a run at the start and after a run at the end.
RECURSIVE split_spaces(_)
split_spaces(s) ==
    LET at == {i \in 1..Len(s) : s[i] = Space} IN
    IF at = {} THEN <<s>>
    ELSE LET i == CHOOSE x \in at : \A y \in at : x <= y
         IN <<SubSeq(s, 1, i - 1)>>
                \o split_spaces(SubSeq(s, SpaceRunEnd(s, i - 1) + 1, Len(s)))

\* input.parse::<u8>()
parse_number(s) == parse_u8(s)

\* The HashSet of the parsed pieces, or None when a piece is no u8.
parse_space_separated_values(s) ==
    LET pieces == split_spaces(s) IN
    IF \E k \in 1..Len(pieces) : parse_number(pieces[k]) = None THEN None
    ELSE Some({parse_number(pieces[k])[1] : k \in 1..Len(pieces)})

\* Scratchcard::from_str: None is the error.
Scratchcard_from_str(s) ==
    LET caps == scratchcard_captures(s) IN
    IF caps = None THEN None
    ELSE LET winning_numbers == parse_space_separated_values(caps[1][1])
             our_numbers == parse_space_separated_values(caps[1][2]) IN
         IF winning_numbers = None \/ our_numbers = None THEN None
         ELSE Some(Scratchcard(winning_numbers[1], our_numbers[1], U64Of(1)))

num_matches(self) == Cardinality(self.winning_numbers \cap self.our_numbers)

\* 2^k as a u64, for k below 64.
PowerOfTwo(k) ==
    [i \in 1..U64Bytes |-> IF i = (k \div 8) + 1 THEN 2 ^ (k % 8) ELSE 0]

\* points(): u64::checked_pow(2, num_wins - 1), None is the error.
points(self) ==
    IF num_matches(self) = 0 THEN Some(U64Zero)
    ELSE IF num_matches(self) - 1 >= 8 * U64Bytes THEN None
    ELSE Some(PowerOfTwo(num_matches(self) - 1))

(* Day 4: mod.rs *)

\* input.lines().filter(|line| !line.is_empty()).map(parse).collect(): None
\* is the error of the first line that is no scratchcard.
collect_scratchcards(s) ==
    LET non_empty == SelectSeq(Lines(s), LAMBDA l : l # <<>>) IN
    IF \E k \in 1..Len(non_empty) : Scratchcard_from_str(non_empty[k]) = None THEN None
    ELSE Some([k \in 1..Len(non_empty) |-> Scratchcard_from_str(non_empty[k])[1]])

\* Mutant: the card itself is the first to get the copies.
following_NoSkip(cards, idx, n) ==
    {j \in 1..Len(cards) : j - 1 >= idx /\ j - 1 < idx + n}

\* The places (from 1) that iter_mut().skip(idx + 1).take(n) goes through.
following(cards, idx, n) ==
    {j \in 1..Len(cards) : j - 1 >= idx + 1 /\ j - 1 < idx + 1 + n}

\* The body of the outer loop for scratchcard_idx = idx: the cards after the
\* inner loop, None when a `copies +=` panicked on overflow.
propagate(cards, idx, overflow_checks) ==
    LET scratchcard_copies == cards[idx + 1].copies
        targets == following(cards, idx, num_matches(cards[idx + 1]))
        added == [j \in targets |-> add_u64(cards[j].copies, scratchcard_copies,
                                            overflow_checks)]
    IN IF \E j \in targets : added[j] = None THEN None
       ELSE Some([j \in 1..Len(cards) |->
                    IF j \in targets THEN [cards[j] EXCEPT !.copies = added[j][1]]
                    ELSE cards[j]])

(* Documents of day 4 *)

MaxCards == 4

\* Cards of no, one, two and three matches, an empty line and a card with a
\* number above u8::MAX.
Day4Lines ==
    {<<67, 97, 114, 100, 32, 49, 58, 32, 49, 32, 50, 32, 51, 32, 124, 32, 52, 32, 53, 32, 54>>,
     <<67, 97, 114, 100, 32, 50, 58, 32, 49, 32, 50, 32, 51, 32, 124, 32, 49, 32, 53, 32, 54>>,
     <<67, 97, 114, 100, 32, 32, 51, 58, 32, 32, 49, 32, 32, 50, 32, 124, 32, 32, 50, 32, 49>>,
     <<67, 97, 114, 100, 32, 52, 58, 32, 49, 32, 50, 32, 51, 32, 124, 32, 51, 32, 50, 32, 49>>,
     <<>>,
     <<67, 97, 114, 100, 32, 53, 58, 32, 49, 32, 124, 32, 50, 53, 54>>}

\* At most n lines, each ended by a line feed.
RECURSIVE CardDocs(_)
CardDocs(n) ==
    IF n = 0 THEN {<<>>}
    ELSE LET shorter == CardDocs(n - 1) IN
         shorter \cup {l \o <<LF>> \o d : l \in Day4Lines, d \in shorter}

(* run() of day 4 as a state machine *)

InitDay4 ==
    /\ Day3Idle
    /\ Day1Idle
    /\ ConcatenateIdle
    /\ Day2Idle
    /\ d4_input \in CardDocs(MaxCards)
    /\ d4_pc = "parse"
    /\ scratchcards = <<>>
    /\ scratchcard_idx = 0
    /\ sum_of_points = None
    /\ num_scratchcards = None
    /\ d4_error = None

ParseCards ==
    /\ d4_pc = "parse"
    /\ LET parsed == collect_scratchcards(d4_input) IN
       IF parsed = None
       THEN /\ d4_error' = Some("Failed to parse scratchcard")
            /\ d4_pc' = "run_err"
            /\ UNCHANGED scratchcards
       ELSE /\ scratchcards' = parsed[1]
            /\ d4_pc' = "points"
            /\ UNCHANGED d4_error
    /\ UNCHANGED <<d4_input, scratchcard_idx, sum_of_points, num_scratchcards>>
    /\ UNCHANGED <<day3vars, day1vars, concatvars, day2vars>>

\* sum::<Result<u64>>() of the points: the error of points() ends run, an
\* overflow of the sum panics or wraps.
SumPoints ==
    /\ d4_pc = "points"
    /\ IF \E k \in 1..Len(scratchcards) : points(scratchcards[k]) = None
       THEN /\ d4_error' = Some("overflow while trying to calculate points")
            /\ d4_pc' = "run_err"
            /\ UNCHANGED sum_of_points
       ELSE \E overflow_checks \in BOOLEAN :
              LET total == sum_u64([k \in 1..Len(scratchcards) |-> points(scratchcards[k])],
                                   1, U64Zero, overflow_checks)
              IN /\ sum_of_points' = total
                 /\ d4_pc' = IF total = None THEN "panicked" ELSE "loop"
                 /\ UNCHANGED d4_error
    /\ UNCHANGED <<d4_input, scratchcards, scratchcard_idx, num_scratchcards>>
    /\ UNCHANGED <<day3vars, day1vars, concatvars, day2vars>>

\* One turn of the outer loop.
Propagate ==
    /\ d4_pc = "loop"
    /\ scratchcard_idx < Len(scratchcards)
    /\ \E overflow_checks \in BOOLEAN :
         LET after == propagate(scratchcards, scratchcard_idx, overflow_checks) IN
         IF after = None
         THEN /\ d4_pc' = "panicked"
              /\ UNCHANGED <<scratchcards, scratchcard_idx>>
         ELSE /\ scratchcards' = after[1]
              /\ scratchcard_idx' = scratchcard_idx + 1
              /\ UNCHANGED d4_pc
    /\ UNCHANGED <<d4_input, sum_of_points, num_scratchcards, d4_error>>
    /\ UNCHANGED <<day3vars, day1vars, concatvars, day2vars>>

\* After the loop: the sum of the copies, and Ok(()).
CountScratchcards ==
    /\ d4_pc = "loop"
    /\ scratchcard_idx = Len(scratchcards)
    /\ \E overflow_checks \in BOOLEAN :
         LET total == sum_u64([k \in 1..Len(scratchcards) |-> Some(scratchcards[k].copies)],
                              1, U64Zero, overflow_checks)
         IN /\ num_scratchcards' = total
            /\ d4_pc' = IF total = None THEN "panicked" ELSE "run_ok"
    /\ UNCHANGED <<d4_input, scratchcards, scratchcard_idx, sum_of_points, d4_error>>
    /\ UNCHANGED <<day3vars, day1vars, concatvars, day2vars>>

NextDay4 == ParseCards \/ SumPoints \/ Propagate \/ CountScratchcards

SpecDay4 == InitDay4 /\ [][NextDay4]_vars

----------------------------------------------------------------------------
(* Day 4: the property *)

\* The number a u64 of the model stands for, when it is below 2^31.
NumberOf(x) == x[1] + 256 * x[2] + 65536 * x[3] + 16777216 * x[4]

CopiesOf(j) == NumberOf(scratchcards[j].copies)

MatchesOf(j) == num_matches(scratchcards[j])

RECURSIVE SumOfCopies(_)
SumOfCopies(S) ==
    IF S = {} THEN 0
    ELSE LET j == CHOOSE x \in S : TRUE IN CopiesOf(j) + SumOfCopies(S \ {j})

\* The earlier cards, among the first n, whose matches reach card j.
Reaching(j, n) == {i \in 1..n : i < j /\ j - i <= MatchesOf(i)}

\* C25: every card starts with one copy; the cards are gone through in the
\* order of the input, and card i adds its copies to the next matches(i)
\* cards, as far as there are cards: when the first n cards are done, card j
\* has 1 plus the copies of the cards among them that reach it, so after
\* the loop 1 plus the final copies of every earlier card i with
\* j - i <= matches(i); the total is the sum of all copies.
C25_CopyPropagation ==
    /\ d4_pc \in {"points", "loop", "run_ok"} =>
          \A j \in 1..Len(scratchcards) :
              CopiesOf(j) = 1 + SumOfCopies(Reaching(j, scratchcard_idx))
    /\ d4_pc = "run_ok" =>
          /\ scratchcard_idx = Len(scratchcards)
          /\ num_scratchcards = Some(U64Of(SumOfCopies(1..Len(scratchcards))))

\* After the loop: a card whose matches go past the last card, and a card
\* with more than four copies.
C25_Witness ==
    /\ d4_pc = "run_ok"
    /\ \E i \in 1..Len(scratchcards) : i + MatchesOf(i) > Len(scratchcards)
    /\ \E j \in 1..Len(scratchcards) : CopiesOf(j) > 4

====
